---- MODULE Spec2Model ----
(***************************************************************************)
(* Verification model of the bendcuts tube-quoting code base:              *)
(*   - calculateQuote, the pricing calculator (quoteCalculator);           *)
(*   - the CAD geometry analyser of QuoteDisplay.tsx (parseCADFile):       *)
(*     unit detection and validation, analyzeBends,                        *)
(*     calculateTubeLengthMultiMethod and analyzeGeometry.                 *)
(*                                                                         *)
(* JavaScript numbers are modelled by exact fixed-point integers; the unit *)
(* of every quantity is stated where it is defined.  Values that exceed    *)
(* 2^31 are held as little-endian sequences of base-10^4 limbs (Limbs).    *)
(***************************************************************************)
EXTENDS Integers, Sequences, FiniteSets, TLC

VARIABLES
    quoteInputs,   \* the QuoteInputs record last handed to calculateQuote
    quote,         \* the QuoteBreakdown it returned, or None
    bendCall,      \* arguments of a call of analyzeBends
    bendResult,    \* what that call returned, or None
    lengthCall,    \* arguments of a call of calculateTubeLengthMultiMethod
    lengthResult,  \* what that call returned, or None
    pc,            \* position of a parseCADFile invocation
    file,          \* the File handed to parseCADFile
    options,       \* defaultOptions of parseCADFile: the caller's options merged in
    dxfData,       \* what DXFLoader.parse returned to parseDxf
    result,        \* the decoder's result object (occt ReadStepFile / ReadIgesFile)
    meshes,        \* analysisMeshes, as far as the analysis reads them
    detectedUnits, \* the units detected for the file
    error,         \* message of the Error parseCADFile rejected with, or ""
    analysis,      \* ParsedGeometry['analysis'], or None
    occtInstance,  \* the module-level cached tessellator: 0 for null, else the
                   \* number of the instance the factory made
    invocation,    \* overlapping parseCADFile invocations: for each, its position
                   \* and its local variables
    unitCall,      \* detected units and bounding size handed to the unit validation
    unitResult     \* the validation and the final units it led to, or None

quoteVars  == <<quoteInputs, quote>>
bendVars   == <<bendCall, bendResult>>
lengthVars == <<lengthCall, lengthResult>>
overlapVars == <<occtInstance, invocation>>
singleVars == <<pc, file, options, dxfData, result, meshes, detectedUnits, error, analysis>>
unitVars   == <<unitCall, unitResult>>
parseVars  == <<singleVars, overlapVars, unitVars>>
\* ---- state of the centreline, viewer, wizard and user-store models ----
VARIABLES
    voxelGrid,  \* the boolean voxel grid handed to computeDistanceTransform
    distanceField,  \* the distance field it returned, or None
    iter,  \* the sweeps computeDistanceTransform made before it returned
    skeletonVoxels  \* [voxels: the array extractSkeletonVoxels returned for that field], or None

skeletonVars == <<voxelGrid, distanceField, iter, skeletonVoxels>>

VARIABLES
    skeletonPoints,  \* [points: the medial points handed to orderSkeletonPoints], or None
    orderedCenterline  \* [points: the array orderSkeletonPoints returned], or None

orderVars == <<skeletonPoints, orderedCenterline>>

VARIABLES
    controlPoints,  \* points.length of the polyline handed to bSplineArcLength
    knotVector,  \* the knot vector, each knot as its numerator over n - degree; <<>> before it is made
    sampleIndex,  \* the loop variable i of bSplineArcLength
    evaluation  \* what the last evaluateBSpline call read and computed, or None

splineVars == <<controlPoints, knotVector, sampleIndex, evaluation>>

VARIABLES
    fileProp,  \* the file prop of CADViewer, or None
    loads,  \* the handleFileLoad invocations so far, in order: file and position of each
    loading,  \* CADViewer state: loading
    viewerError,  \* CADViewer state: error ("" for null)
    parsedGeometry,  \* CADViewer state: parsedGeometry, or None
    notified  \* the analysis last passed to onParsingComplete, or None

viewerVars == <<fileProp, loads, loading, viewerError, parsedGeometry, notified>>

VARIABLES
    currentStep,  \* ConfigurationWizard state.currentStep
    fileUpload,  \* ConfigurationWizard state.fileUpload, or None
    showMaterialModal,  \* ConfigurationWizard state: showMaterialModal
    materialSelection,  \* ConfigurationWizard state: materialSelection, or None
    fileAnalysis,  \* ConfigurationWizard state: fileAnalysis, or None
    selectedMaterial,  \* MaterialSelectionModal state: selectedMaterial, or None
    modalQuantity,  \* MaterialSelectionModal state: quantity
    selectedGauge,  \* MaterialSelectionModal state: selectedGauge
    uploadData,  \* FileUploadStep state: uploadData, or None while it is not mounted
    viewerCallback,  \* the uploadData closed over by the onParsingComplete that the mounted CADViewer
                   \* captured at its first render, or None while none is mounted
    viewerLoads,  \* the handleFileLoad invocations so far: file, captured uploadData and position
    uploaded  \* the number of files the user has dropped so far

wizardVars == <<currentStep, fileUpload, showMaterialModal, materialSelection, fileAnalysis, selectedMaterial, modalQuantity, selectedGauge, uploadData, viewerCallback, viewerLoads, uploaded>>

VARIABLES
    userState,  \* UserProvider: the reducer state (user, isLoading, isAuthenticated, stats,
                   \* recentActivity, orders, error), or None
    rendered,  \* the reducer state that the closures of the last provider render hold
    renderPending,  \* a render is scheduled: none, update, or mount (the page has not rendered yet)
    providerMounted,  \* the mount effect of UserProvider has run
    route,  \* the page shown: quote, login, register or dashboard
    storedUser,  \* localStorage tubebend_user: a user id, or None
    storedOrders,  \* localStorage tubebend_orders_<id>, per user id
    pendingOrder,  \* sessionStorage tubebend_pending_order, or None
    flash,  \* sessionStorage tubebend_dashboard_flash, or None
    feedback,  \* QuoteDisplay state: feedback, or None
    authTasks,  \* the login and register calls in flight, with their positions
    authCalls,  \* the number of login and register calls so far
    processing,  \* the processPendingOrder calls that have not reached their finally
    created,  \* the number of order records created so far
    fromPending  \* the ids of the records created from the current pending entry

userVars == <<userState, rendered, renderPending, providerMounted, route, storedUser, storedOrders, pendingOrder, flash, feedback, authTasks, authCalls, processing, created, fromPending>>

appVars == <<skeletonVars, orderVars, splineVars, viewerVars, wizardVars, userVars>>
outsideSkeleton == <<quoteVars, bendVars, lengthVars, parseVars, orderVars, splineVars, viewerVars, wizardVars, userVars>>
outsideOrder == <<quoteVars, bendVars, lengthVars, parseVars, skeletonVars, splineVars, viewerVars, wizardVars, userVars>>
outsideSpline == <<quoteVars, bendVars, lengthVars, parseVars, skeletonVars, orderVars, viewerVars, wizardVars, userVars>>
outsideViewer == <<quoteVars, bendVars, lengthVars, parseVars, skeletonVars, orderVars, splineVars, wizardVars, userVars>>
outsideWizard == <<bendVars, lengthVars, parseVars, skeletonVars, orderVars, splineVars, viewerVars, userVars>>
outsideUser == <<quoteVars, bendVars, lengthVars, parseVars, skeletonVars, orderVars, splineVars, viewerVars, wizardVars>>

\* ---- all variables ----
vars == <<quoteInputs, quote, bendCall, bendResult, lengthCall, lengthResult,
          pc, file, options, dxfData, result, meshes, detectedUnits, error, analysis,
          occtInstance, invocation, unitCall, unitResult, appVars>>

\* the absent value of a record-valued variable (null / undefined)
None == [none |-> TRUE]

Max2(a, b) == IF a >= b THEN a ELSE b
Min2(a, b) == IF a <= b THEN a ELSE b

(***************************************************************************)
(* Exact arithmetic on naturals beyond 2^31: little-endian base-10^4 limbs *)
(***************************************************************************)
LimbBase == 100 * 100

RECURSIVE Limbs(_)
Limbs(n) == IF n < LimbBase THEN <<n>> ELSE <<n % LimbBase>> \o Limbs(n \div LimbBase)

RECURSIVE LimbsMulCarry(_, _, _)
LimbsMulCarry(a, m, carry) ==
    IF a = <<>>
    THEN IF carry = 0 THEN <<>> ELSE Limbs(carry)
    ELSE LET p == Head(a) * m + carry
         IN  <<p % LimbBase>> \o LimbsMulCarry(Tail(a), m, p \div LimbBase)

\* a * m for a small factor m (m < 200000 keeps every product below 2^31)
LimbsMul(a, m) == LimbsMulCarry(a, m, 0)

RECURSIVE LimbsAddCarry(_, _, _)
LimbsAddCarry(a, b, carry) ==
    IF a = <<>> /\ b = <<>>
    THEN IF carry = 0 THEN <<>> ELSE <<carry>>
    ELSE LET x == IF a = <<>> THEN 0 ELSE Head(a)
             y == IF b = <<>> THEN 0 ELSE Head(b)
             s == x + y + carry
         IN  <<s % LimbBase>> \o
             LimbsAddCarry(IF a = <<>> THEN <<>> ELSE Tail(a),
                           IF b = <<>> THEN <<>> ELSE Tail(b), s \div LimbBase)

LimbsAdd(a, b) == LimbsAddCarry(a, b, 0)

RECURSIVE LimbsTrim(_)
LimbsTrim(a) ==
    IF Len(a) > 1 /\ a[Len(a)] = 0 THEN LimbsTrim(SubSeq(a, 1, Len(a) - 1)) ELSE a

RECURSIVE LimbsLeqFrom(_, _, _)
LimbsLeqFrom(a, b, i) ==
    IF i = 0 THEN TRUE
    ELSE IF a[i] # b[i] THEN a[i] < b[i]
    ELSE LimbsLeqFrom(a, b, i - 1)

\* a <= b
LimbsLeq(a, b) ==
    LET x == LimbsTrim(a)
        y == LimbsTrim(b)
    IN  IF Len(x) # Len(y) THEN Len(x) < Len(y) ELSE LimbsLeqFrom(x, y, Len(x))

RECURSIVE LimbsDivFrom(_, _, _, _)
LimbsDivFrom(a, m, i, rem) ==
    IF i = 0 THEN <<>>
    ELSE LET cur == rem * LimbBase + a[i]
         IN  LimbsDivFrom(a, m, i - 1, cur % m) \o <<cur \div m>>

\* floor(a / m) for a small divisor m (m < 200000)
LimbsDiv(a, m) == LimbsTrim(LimbsDivFrom(a, m, Len(a), 0))

\* a * b
RECURSIVE LimbsMulBig(_, _)
LimbsMulBig(a, b) ==
    IF b = <<>> THEN <<0>>
    ELSE LimbsAdd(LimbsMul(a, Head(b)), <<0>> \o LimbsMulBig(a, Tail(b)))

\* floor(a * 1000 / b) by long division, for 0 <= a and 0 < b < 2^31 / 10
ScaledQuotient(a, b) ==
    LET r0 == a % b
        r1 == (r0 * 10) % b
        r2 == (r1 * 10) % b
    IN  (a \div b) * 1000 + ((r0 * 10) \div b) * 100 + ((r1 * 10) \div b) * 10
        + (r2 * 10) \div b

RECURSIVE LimbsToInt(_)
LimbsToInt(a) == IF a = <<>> THEN 0 ELSE Head(a) + LimbBase * LimbsToInt(Tail(a))

(***************************************************************************)
(* Pricing calculator (quoteCalculator): calculateQuote                    *)
(*   money line items: integers in 1e-4 dollar                             *)
(*   subtotal, tax, total: Limbs in 1e-11 dollar                           *)
(*   weights: 1e-2 lb (per inch: 1e-2 lb/in), hours: 1e-2 h                *)
(*   pricePerLb: cents, length: inches, discount: percent                  *)
(***************************************************************************)
bendingCostPerBend == 15
cuttingCostPerCut == 8
setupCost == 75
laborRate == 65
baseTimePerPart == 25
timePerBend == 15
timePerCut == 8
\* taxRate 0.08875, in 1e-5
taxRate == 8875

\* PRICING_CONSTANTS.materialWeights, in 1e-2 lb per inch
materialWeights ==
    [k \in {"16 AWG", "14 AWG", "12 AWG", "10 AWG", "8 AWG"} |->
        CASE k = "16 AWG" -> 15
          [] k = "14 AWG" -> 19
          [] k = "12 AWG" -> 25
          [] k = "10 AWG" -> 32
          [] k = "8 AWG" -> 41]

\* PRICING_CONSTANTS.quantityDiscounts, in percent
quantityDiscounts == [t \in {1, 11, 51, 101} |->
    CASE t = 1 -> 0 [] t = 11 -> 5 [] t = 51 -> 10 [] t = 101 -> 15]

\* The gauge strings of the model, and for each the digits that
\* gauge.match(/(\d+)\s*AWG/) captures ("" when the pattern does not match).
GaugeStrings == {"14 AWG", "14 AWG (0.078\")", "8 AWG (0.172\")", "16AWG", "18 AWG",
                 "0.065 wall"}
GaugeMatch(gauge) ==
    CASE gauge = "14 AWG" -> "14"
      [] gauge = "14 AWG (0.078\")" -> "14"
      [] gauge = "14 AWG (0.064\")" -> "14"
      [] gauge = "8 AWG (0.172\")" -> "8"
      [] gauge = "16AWG" -> "16"
      [] gauge = "18 AWG" -> "18"
      [] OTHER -> ""

extractGaugeKey(gauge) ==
    IF GaugeMatch(gauge) # "" THEN GaugeMatch(gauge) \o " AWG" ELSE "14 AWG"

getQuantityDiscount_Shifted(quantity) ==
    IF quantity >= 101 THEN quantityDiscounts[101]
    ELSE IF quantity >= 51 THEN quantityDiscounts[101]
    ELSE IF quantity >= 11 THEN quantityDiscounts[51]
    ELSE quantityDiscounts[1]

getQuantityDiscount_Off(quantity) ==
    IF quantity >= 101 THEN quantityDiscounts[101]
    ELSE IF quantity >= 51 THEN quantityDiscounts[51]
    ELSE IF quantity >= 10 THEN quantityDiscounts[11]
    ELSE quantityDiscounts[1]

getQuantityDiscount(quantity) ==
    IF quantity >= 101 THEN quantityDiscounts[101]
    ELSE IF quantity >= 51 THEN quantityDiscounts[51]
    ELSE IF quantity >= 11 THEN quantityDiscounts[11]
    ELSE quantityDiscounts[1]

calculateMaterialWeight(length, gauge) ==
    LET gaugeKey == extractGaugeKey(gauge)
        weightPerInch == IF gaugeKey \in DOMAIN materialWeights
                         THEN materialWeights[gaugeKey] ELSE 19
    IN  length * weightPerInch

calculateQuote(inputs) ==
    LET quantity == inputs.quantity
        bends == inputs.bends
        cuts == inputs.cuts
        materialWeight == calculateMaterialWeight(inputs.length, inputs.gauge)
        materialCostPerPart == materialWeight * inputs.material.pricePerLb
        totalMaterialCost == materialCostPerPart * quantity
        bendingCostPerPart == bends * bendingCostPerBend
        totalBendingCost == bendingCostPerPart * quantity * 10000
        cuttingCostPerPart == cuts * cuttingCostPerCut
        totalCuttingCost == cuttingCostPerPart * quantity * 10000
        laborTimePerPart == baseTimePerPart + (bends * timePerBend) + (cuts * timePerCut)
        totalLaborHours == laborTimePerPart * quantity
        totalLaborCost == totalLaborHours * laborRate * 100
        setup == setupCost * 10000
        subtotalBeforeDiscount ==
            totalMaterialCost + totalBendingCost + totalCuttingCost + totalLaborCost + setup
        discount == getQuantityDiscount(quantity)
        \* subtotalBeforeDiscount - subtotalBeforeDiscount * discount, in 1e-6 dollar
        subtotal6 == LimbsMul(Limbs(subtotalBeforeDiscount), 100 - discount)
        subtotal == LimbsMul(subtotal6, 100000)
        tax == LimbsMul(subtotal6, taxRate)
        total == LimbsAdd(subtotal, tax)
    IN  [materialCost |-> totalMaterialCost,
         bendingCost |-> totalBendingCost,
         cuttingCost |-> totalCuttingCost,
         setupCost |-> setup,
         laborCost |-> totalLaborCost,
         subtotal |-> subtotal,
         tax |-> tax,
         total |-> total,
         pricePerPart |-> [num |-> total, den |-> quantity],
         details |-> [materialWeight |-> materialWeight,
                      bendingRate |-> bendingCostPerBend,
                      cuttingRate |-> cuttingCostPerCut,
                      setupRate |-> setup,
                      laborHours |-> totalLaborHours,
                      laborRate |-> laborRate]]

\* amount.toFixed(2) of formatCurrency, for amount = num / den with num in
\* 1e-11 dollar: the amount in cents, rounded to nearest
formatCurrency(num, den) ==
    LimbsToInt(LimbsDiv(LimbsDiv(LimbsDiv(
        LimbsAdd(num, LimbsMul(Limbs(500000000), den)), den), 100000), 10000))

(***************************************************************************)
(* Inputs of the pricing specification                                     *)
(***************************************************************************)
MaxQuantity == 102
MaxBendsQuoted == 3
MaxCutsQuoted == 2
MaxLengthSteps == 2

Materials == {[id |-> "stainless-steel", pricePerLb |-> 475],
              [id |-> "aluminum", pricePerLb |-> 250]}
QuoteGauges == {"14 AWG", "8 AWG (0.172\")", "0.065 wall"}
QuoteLengths == {48 * i : i \in 0..MaxLengthSteps}

\* quantities on both sides of every discount threshold
Quantities == {1, 2} \cup (9..12) \cup (49..52) \cup (99..MaxQuantity)

QuoteInputs ==
    [material : Materials, quantity : Quantities, gauge : QuoteGauges,
     length : QuoteLengths, bends : 0..MaxBendsQuoted, cuts : 0..MaxCutsQuoted]

IdleBend == bendCall = None /\ bendResult = None
IdleLength == lengthCall = None /\ lengthResult = None
IdleParse == /\ pc = "idle" /\ file = None /\ result = None /\ meshes = None
             /\ options = None /\ dxfData = None
             /\ detectedUnits = <<>> /\ error = "" /\ analysis = None
IdleOverlap == occtInstance = 0 /\ invocation = None
IdleUnits == unitCall = None /\ unitResult = None
IdleQuote == quoteInputs = None /\ quote = None

\* ---- idle values of the centreline, viewer, wizard and user-store models ----
IdleSkeleton == voxelGrid = None /\ distanceField = None /\ iter = 0 /\ skeletonVoxels = None
IdleOrder == skeletonPoints = None /\ orderedCenterline = None
IdleSpline == controlPoints = 0 /\ knotVector = <<>> /\ sampleIndex = 0 /\ evaluation = None
IdleViewer == fileProp = None /\ loads = <<>> /\ loading = FALSE /\ viewerError = "" /\ parsedGeometry = None /\ notified = None
IdleWizard == currentStep = 0 /\ fileUpload = None /\ showMaterialModal = FALSE /\ materialSelection = None /\ fileAnalysis = None /\ selectedMaterial = None /\ modalQuantity = 1 /\ selectedGauge = "" /\ uploadData = None /\ viewerCallback = None /\ viewerLoads = <<>> /\ uploaded = 0
IdleUser == userState = None /\ rendered = None /\ renderPending = "none" /\ providerMounted = FALSE /\ route = "" /\ storedUser = None /\ storedOrders = None /\ pendingOrder = None /\ flash = None /\ feedback = None /\ authTasks = <<>> /\ authCalls = 0 /\ processing = 0 /\ created = 0 /\ fromPending = {}
IdleApp == IdleSkeleton /\ IdleOrder /\ IdleSpline /\ IdleViewer /\ IdleWizard /\ IdleUser
IdleOutsideSkeleton ==
    IdleQuote /\ IdleBend /\ IdleLength /\ IdleParse /\ IdleOverlap /\ IdleUnits /\ IdleOrder /\ IdleSpline /\ IdleViewer /\ IdleWizard /\ IdleUser
IdleOutsideOrder ==
    IdleQuote /\ IdleBend /\ IdleLength /\ IdleParse /\ IdleOverlap /\ IdleUnits /\ IdleSkeleton /\ IdleSpline /\ IdleViewer /\ IdleWizard /\ IdleUser
IdleOutsideSpline ==
    IdleQuote /\ IdleBend /\ IdleLength /\ IdleParse /\ IdleOverlap /\ IdleUnits /\ IdleSkeleton /\ IdleOrder /\ IdleViewer /\ IdleWizard /\ IdleUser
IdleOutsideViewer ==
    IdleQuote /\ IdleBend /\ IdleLength /\ IdleParse /\ IdleOverlap /\ IdleUnits /\ IdleSkeleton /\ IdleOrder /\ IdleSpline /\ IdleWizard /\ IdleUser
IdleOutsideWizard ==
    IdleBend /\ IdleLength /\ IdleParse /\ IdleOverlap /\ IdleUnits /\ IdleSkeleton /\ IdleOrder /\ IdleSpline /\ IdleViewer /\ IdleUser
IdleOutsideUser ==
    IdleQuote /\ IdleBend /\ IdleLength /\ IdleParse /\ IdleOverlap /\ IdleUnits /\ IdleSkeleton /\ IdleOrder /\ IdleSpline /\ IdleViewer /\ IdleWizard

\* ---- initial states ----
InitQuote ==
    /\ quoteInputs \in QuoteInputs
    /\ quote = None
    /\ IdleBend /\ IdleLength /\ IdleParse /\ IdleOverlap /\ IdleUnits /\ IdleApp

\* calculateQuote(inputs) is called and its result kept
Quote(inputs) ==
    /\ quoteInputs' = inputs
    /\ quote' = calculateQuote(inputs)
    /\ UNCHANGED <<bendVars, lengthVars, parseVars, appVars>>

CalculateQuote == Quote(quoteInputs)
RequoteQuantity == \E q \in Quantities : Quote([quoteInputs EXCEPT !.quantity = q])
RequoteBends == \E b \in 0..MaxBendsQuoted : Quote([quoteInputs EXCEPT !.bends = b])
RequoteCuts == \E c \in 0..MaxCutsQuoted : Quote([quoteInputs EXCEPT !.cuts = c])
RequoteLength == \E l \in QuoteLengths : Quote([quoteInputs EXCEPT !.length = l])

NextQuote ==
    \/ CalculateQuote
    \/ RequoteQuantity
    \/ RequoteBends
    \/ RequoteCuts
    \/ RequoteLength

SpecQuote == InitQuote /\ [][NextQuote]_vars

(***************************************************************************)
(* Claims about calculateQuote                                             *)
(***************************************************************************)
SameMaterialAndGauge ==
    /\ quoteInputs'.material = quoteInputs.material
    /\ quoteInputs'.gauge = quoteInputs.gauge

RaisedQuantity ==
    /\ SameMaterialAndGauge
    /\ quoteInputs'.quantity > quoteInputs.quantity
    /\ quoteInputs'.bends = quoteInputs.bends
    /\ quoteInputs'.cuts = quoteInputs.cuts
    /\ quoteInputs'.length = quoteInputs.length

RaisedBendsCutsOrLength ==
    /\ SameMaterialAndGauge
    /\ quoteInputs'.quantity = quoteInputs.quantity
    /\ quoteInputs'.bends >= quoteInputs.bends
    /\ quoteInputs'.cuts >= quoteInputs.cuts
    /\ quoteInputs'.length >= quoteInputs.length

TotalNotLower == LimbsLeq(quote.total, quote'.total)

\* the discount band of the claim: 1-10, 11-50, 51-100, 101 and more
DiscountBand(q) == IF q <= 10 THEN 0 ELSE IF q <= 50 THEN 1 ELSE IF q <= 100 THEN 2 ELSE 3

\* C1 as stated: with material, gauge and the other inputs fixed, total never
\* decreases when quantity is increased (for every pair q < q', also across the
\* discount thresholds), nor when bends, cuts or length is increased.
C1_TotalMonotoneInEveryInput ==
    [][(quote # None /\ (RaisedQuantity \/ RaisedBendsCutsOrLength)) => TotalNotLower]_vars

\* C1 amended: total never decreases when bends, cuts or length is increased,
\* nor when quantity is increased from q to q' with q <= 10 or with q and q' in
\* the same discount band.
C1_TotalMonotoneWithinBand ==
    [][(/\ quote # None
        /\ \/ RaisedBendsCutsOrLength
           \/ /\ RaisedQuantity
              /\ \/ quoteInputs.quantity <= 10
                 \/ DiscountBand(quoteInputs.quantity) = DiscountBand(quoteInputs'.quantity))
       => TotalNotLower]_vars

\* a quote for 11 parts, the first quantity with a discount, that is not below
\* the quote for 10 parts of the same tube
C1_Witness ==
    /\ quote # None
    /\ quoteInputs.quantity = 11
    /\ quoteInputs.bends = 3
    /\ LimbsLeq(calculateQuote([quoteInputs EXCEPT !.quantity = 10]).total, quote.total)

\* the example of the claim: pricePerLb 4.75, 14 AWG, 48 in, 3 bends, 2 cuts, 10 parts
C2_Example ==
    [material |-> [id |-> "stainless-steel", pricePerLb |-> 475], quantity |-> 10,
     gauge |-> "14 AWG", length |-> 48, bends |-> 3, cuts |-> 2]

C2_Discount(q) == IF q <= 10 THEN 0 ELSE IF q <= 50 THEN 5 ELSE IF q <= 100 THEN 10 ELSE 15

\* C2: every line of the breakdown follows the stated formula (material =
\* length * weightPerInch * pricePerLb * quantity, bending = bends * 15 * quantity,
\* cutting = cuts * 8 * quantity, labor = quantity * (0.25 + 0.15 bends + 0.08 cuts) * 65,
\* setup = 75, subtotal = sum * (1 - d), tax = 0.08875 * subtotal, total = subtotal + tax,
\* pricePerPart = total / quantity), and the example gives subtotal 1677.20, tax 148.85,
\* total 1826.05 and 182.61 per part when rounded to cents.
C2_QuoteBreakdown ==
    quote # None =>
        LET q == quoteInputs.quantity
            b == quoteInputs.bends
            c == quoteInputs.cuts
            weightPerInch == calculateMaterialWeight(1, quoteInputs.gauge)
            sum == quote.materialCost + quote.bendingCost + quote.cuttingCost
                   + quote.laborCost + quote.setupCost
        IN  /\ quote.materialCost
                 = quoteInputs.length * weightPerInch * quoteInputs.material.pricePerLb * q
            /\ quote.bendingCost = b * 15 * q * 10000
            /\ quote.cuttingCost = c * 8 * q * 10000
            /\ quote.laborCost = q * (25 + 15 * b + 8 * c) * 65 * 100
            /\ quote.setupCost = 75 * 10000
            /\ quote.subtotal = LimbsMul(LimbsMul(Limbs(sum), 100 - C2_Discount(q)), 100000)
            /\ LimbsMul(quote.tax, 100000) = LimbsMul(quote.subtotal, 8875)
            /\ quote.total = LimbsAdd(quote.subtotal, quote.tax)
            /\ quote.pricePerPart = [num |-> quote.total, den |-> q]
            /\ quoteInputs = C2_Example =>
                  /\ formatCurrency(quote.subtotal, 1) = 167720
                  /\ formatCurrency(quote.tax, 1) = 14885
                  /\ formatCurrency(quote.total, 1) = 182605
                  /\ formatCurrency(quote.pricePerPart.num, quote.pricePerPart.den) = 18261

C2_Witness == quote # None /\ quoteInputs = C2_Example

(***************************************************************************)
(* Bend analyser (QuoteDisplay.tsx): analyzeBends and its three methods    *)
(*                                                                         *)
(* A mesh is modelled by what the analysis reads of it:                    *)
(*   count      positions.count, the number of vertices                    *)
(*   indexCount geometry.index.count (0: no index)                         *)
(*   curvatureChanges, directionChanges                                    *)
(*              how many of the sampled interior points exceed the         *)
(*              curvature / direction threshold (decided by the geometry)  *)
(* Sizes and lengths are in ticks of 1e-4 file unit (below 1.07e8 ticks);  *)
(* confidences are in 1e-3; totalTriangles is in thirds of a triangle      *)
(* (indices.count / 3 need not be whole).                                  *)
(***************************************************************************)
SampleCountCurvature(mesh) == Min2(100, mesh.count \div 5)
SampleCountDirection(mesh) == Min2(50, mesh.count \div 8)

\* the interior points i = 2 .. points.length - 3 of a sampled path
InteriorPoints(sampleCount) == Max2(0, sampleCount - 4)

analyzeCurvature(ms) ==
    IF Len(ms) # 1 THEN [success |-> FALSE, bends |-> 0, confidence |-> 0]
    ELSE IF ms[1].count < 20 THEN [success |-> FALSE, bends |-> 0, confidence |-> 0]
    ELSE LET sampleCount == SampleCountCurvature(ms[1])
             significantCurvatureChanges == ms[1].curvatureChanges
         IN  [success |-> TRUE,
              bends |-> Max2(0, significantCurvatureChanges \div 3),
              confidence |-> Min2(900, 500 + (sampleCount * 1000) \div 200)]

analyzeDirectionChanges(ms) ==
    IF Len(ms) # 1 THEN [success |-> FALSE, bends |-> 0, confidence |-> 0]
    ELSE IF ms[1].count < 10 THEN [success |-> FALSE, bends |-> 0, confidence |-> 0]
    ELSE LET significantDirectionChanges == ms[1].directionChanges
         IN  [success |-> TRUE,
              bends |-> Max2(0, significantDirectionChanges \div 2),
              confidence |-> 700]

\* The least values of totalVertices * (totalTriangles + 1), in thirds, at which
\* floor((ln(totalVertices) + ln(totalTriangles + 1) - 8) / 1.5) reaches 1, 2, ...:
\* ceil(3 * e^(8 + 1.5 k)).  The products of the model stay below 2^31, so the
\* thresholds of 9 and 10 bends (6.5e9 and 2.9e10) are out of its reach.
ComplexityThresholds ==
    <<40080, 179623, 805012, 3607813, 16169096, 72464859, 324764964, 1455495587>>

estimateBendsFromComplexity(totalVertices, totalTriangles3) ==
    IF totalVertices < 100 THEN 0
    ELSE LET product == totalVertices * (totalTriangles3 + 3)
             estimatedBends ==
                 Cardinality({k \in 1..Len(ComplexityThresholds) :
                                 product >= ComplexityThresholds[k]})
         IN  Min2(estimatedBends, 10)

RECURSIVE SumOver(_, _, _)
SumOver(ms, i, field) == IF i = 0 THEN 0 ELSE ms[i][field] + SumOver(ms, i - 1, field)

\* methods.sort((a, b) => b.confidence - a.confidence): stable, highest first
RECURSIVE InsertByConfidence(_, _)
InsertByConfidence(sorted, m) ==
    IF sorted = <<>> THEN <<m>>
    ELSE IF Head(sorted).confidence >= m.confidence
         THEN <<Head(sorted)>> \o InsertByConfidence(Tail(sorted), m)
         ELSE <<m>> \o sorted

RECURSIVE SortByConfidence(_)
SortByConfidence(methods) ==
    IF methods = <<>> THEN <<>>
    ELSE InsertByConfidence(SortByConfidence(SubSeq(methods, 1, Len(methods) - 1)),
                            methods[Len(methods)])

\* slenderRatio = longest / max(second, third, 1e-3) as [num, den] in ticks,
\* None for null (no boundingSize, or longest = 0)
Abs(x) == IF x < 0 THEN 0 - x ELSE x
SlenderRatio(boundingSize) ==
    IF boundingSize = None THEN None
    ELSE LET ax == Abs(boundingSize.size[1])
             ay == Abs(boundingSize.size[2])
             az == Abs(boundingSize.size[3])
             longest == Max2(ax, Max2(ay, az))
             smallest == Min2(ax, Min2(ay, az))
             middle == ax + ay + az - longest - smallest
             crossSpan == Max2(Max2(middle, smallest), 10)
         IN  IF longest > 0 THEN [num |-> longest, den |-> crossSpan] ELSE None

\* slenderRatio && slenderRatio > k, that is num > k * den
SlenderOver(slenderRatio, k) ==
    slenderRatio # None /\ slenderRatio.den <= (slenderRatio.num - 1) \div k

RoundRatio_Floor(weightedSum, totalWeight) == weightedSum \div totalWeight

\* Math.round of weightedSum / totalWeight (both >= 0)
RoundRatio(weightedSum, totalWeight) == (2 * weightedSum + totalWeight) \div (2 * totalWeight)

ClampBendCount_NoCap(bendCount) == Max2(0, bendCount)

\* Math.max(0, Math.min(bendCount, 20))
ClampBendCount(bendCount) == Max2(0, Min2(bendCount, 20))

ExtremeSlenderness_Only22(est, slenderRatio) ==
    IF SlenderOver(slenderRatio, 22)
    THEN [bendCount |-> Min2(est.bendCount, 1), confidence |-> est.confidence]
    ELSE est

\* "Extremely slender parts should never report high bend counts"
ExtremeSlenderness(est, slenderRatio) ==
    IF SlenderOver(slenderRatio, 22)
    THEN IF SlenderOver(slenderRatio, 30)
         THEN [bendCount |-> 0, confidence |-> Min2(est.confidence, 600)]
         ELSE [bendCount |-> Min2(est.bendCount, 1), confidence |-> est.confidence]
    ELSE est

TrustHighest_OnlyOver18(weighted, highest, slenderRatio) ==
    IF SlenderOver(slenderRatio, 18) /\ highest.bendCount < weighted.bendCount
    THEN [bendCount |-> highest.bendCount, confidence |-> weighted.confidence]
    ELSE weighted

\* if (slenderRatio && slenderRatio > 10) { ... bendCount = highest.bendCount }
TrustHighest(weighted, highest, slenderRatio) ==
    IF SlenderOver(slenderRatio, 10)
       /\ \/ highest.bendCount <= 1
          \/ SlenderOver(slenderRatio, 18) /\ highest.bendCount < weighted.bendCount
    THEN [bendCount |-> highest.bendCount, confidence |-> weighted.confidence]
    ELSE weighted

analyzeBends(ms, boundingSize) ==
    IF Len(ms) = 0
    THEN [bendCount |-> 0, totalVertices |-> 0, totalTriangles |-> 0, confidence |-> 0]
    ELSE
    LET totalVertices == SumOver(ms, Len(ms), "count")
        totalTriangles == SumOver(ms, Len(ms), "indexCount")
        curvatureAnalysis == analyzeCurvature(ms)
        directionAnalysis == analyzeDirectionChanges(ms)
        complexityBends == estimateBendsFromComplexity(totalVertices, totalTriangles)
        methodEstimates ==
            (IF curvatureAnalysis.success
             THEN <<[bendCount |-> curvatureAnalysis.bends,
                     confidence |-> curvatureAnalysis.confidence, method |-> "curvature"]>>
             ELSE <<>>)
            \o (IF directionAnalysis.success
                THEN <<[bendCount |-> directionAnalysis.bends,
                        confidence |-> directionAnalysis.confidence, method |-> "direction"]>>
                ELSE <<>>)
            \o <<[bendCount |-> complexityBends, confidence |-> 300, method |-> "complexity"]>>
        slenderRatio == SlenderRatio(boundingSize)
        sorted == SortByConfidence(methodEstimates)
        filtered == SelectSeq(sorted, LAMBDA m : ~(m.confidence < 500 /\ m.bendCount > 2))
        sortedMethods == IF SlenderOver(slenderRatio, 8) /\ Len(filtered) > 0
                         THEN filtered ELSE sorted
        topMethods == SubSeq(sortedMethods, 1, Min2(2, Len(sortedMethods)))
        weightedSum == topMethods[1].bendCount * topMethods[1].confidence
                       + (IF Len(topMethods) > 1
                          THEN topMethods[2].bendCount * topMethods[2].confidence ELSE 0)
        totalWeight == topMethods[1].confidence
                       + (IF Len(topMethods) > 1 THEN topMethods[2].confidence ELSE 0)
        highest == topMethods[1]
        weighted == [bendCount |-> IF totalWeight > 0
                                   THEN RoundRatio(weightedSum, totalWeight) ELSE 0,
                     confidence |-> highest.confidence]
        hasLowBendSignal ==
            \/ curvatureAnalysis.success /\ curvatureAnalysis.bends <= 1
            \/ directionAnalysis.success /\ directionAnalysis.bends <= 1
        \* "If the geometry is nearly straight, trust the highest-confidence method"
        straight == TrustHighest(weighted, highest, slenderRatio)
        lowSignal ==
            IF SlenderOver(slenderRatio, 12) /\ hasLowBendSignal
            THEN [bendCount |-> IF SlenderOver(slenderRatio, 18) THEN 0
                                ELSE Min2(straight.bendCount, 1),
                  confidence |-> Max2(Max2(IF curvatureAnalysis.success
                                           THEN curvatureAnalysis.confidence ELSE 0,
                                           IF directionAnalysis.success
                                           THEN directionAnalysis.confidence ELSE 0), 500)]
            ELSE straight
        guarded == ExtremeSlenderness(lowSignal, slenderRatio)
    IN  [bendCount |-> ClampBendCount(guarded.bendCount),
         totalVertices |-> totalVertices,
         totalTriangles |-> totalTriangles,
         confidence |-> guarded.confidence]

(***************************************************************************)
(* Inputs of the bend-analysis specification                               *)
(***************************************************************************)
MaxCurvatureBends == 24
MaxDirectionBends == 23
MaxSlenderness == 32

VertexCounts == {5, 12, 24, 500}
IndexCounts == {0, 1500, 600000}

\* the meshes with `count` vertices: the numbers of threshold crossings are
\* bounded by the number of interior sample points of each method
MeshesOf(count, maxCurvature, maxDirection) ==
    {m \in [count : {count}, indexCount : IndexCounts,
            curvatureChanges : {3 * i : i \in 0..maxCurvature},
            directionChanges : {2 * j : j \in 0..maxDirection}] :
        /\ m.curvatureChanges <=
              (IF count >= 20 THEN InteriorPoints(SampleCountCurvature(m)) ELSE 0)
        /\ m.directionChanges <=
              (IF count >= 10 THEN InteriorPoints(SampleCountDirection(m)) ELSE 0)}

BendMeshes == UNION {MeshesOf(c, MaxCurvatureBends, MaxDirectionBends) : c \in VertexCounts}

\* a mesh with few triangles: two of them make the complexity estimate 1 bend
SparseMeshes ==
    {[count |-> 500, indexCount |-> 60, curvatureChanges |-> 0, directionChanges |-> 0]}

BendMeshSets ==
    {<<>>} \cup {<<m>> : m \in BendMeshes}
           \cup {<<m, m>> : m \in MeshesOf(500, 0, 0) \cup SparseMeshes}

\* bounding sizes in ticks: a point, a line along x, and boxes whose longest
\* side is k times the second
BoundingSizes ==
    {[size |-> <<0, 0, 0>>], [size |-> <<5000, 0, 0>>]}
    \cup {[size |-> <<100, 10000 * k, 10000>>] : k \in 0..MaxSlenderness}

InitBends ==
    /\ bendCall \in [meshes : BendMeshSets, boundingSize : {None} \cup BoundingSizes]
    /\ bendResult = None
    /\ IdleQuote /\ IdleLength /\ IdleParse /\ IdleOverlap /\ IdleUnits /\ IdleApp

\* analyzeBends(meshes, boundingSize) is called and returns
AnalyzeBends ==
    /\ bendResult = None
    /\ bendResult' = analyzeBends(bendCall.meshes, bendCall.boundingSize)
    /\ UNCHANGED <<bendCall, quoteVars, lengthVars, parseVars, appVars>>

NextBends == AnalyzeBends

SpecBends == InitBends /\ [][NextBends]_vars

(***************************************************************************)
(* Claims about analyzeBends                                               *)
(***************************************************************************)
\* C4: analyzeBends returns an integer bend count in [0, 20] for every
\* combination of sub-method outcomes and every bounding size, also without one.
C4_BendCountInRange ==
    bendResult # None => bendResult.bendCount \in 0..20

\* the estimators agree on more than 20 bends, no bounding size is supplied,
\* and 20 is returned
C4_Witness ==
    /\ bendResult # None
    /\ bendCall.boundingSize = None
    /\ analyzeCurvature(bendCall.meshes).bends > 20
    /\ analyzeDirectionChanges(bendCall.meshes).bends > 20
    /\ bendResult.bendCount = 20

\* S > k for S = longest axis / max(second-longest axis, 1e-3), sizes in ticks
C5_SOver(k) ==
    /\ bendCall.boundingSize # None
    /\ LET sz == bendCall.boundingSize.size
           longest == Max2(sz[1], Max2(sz[2], sz[3]))
           second == CHOOSE d \in {sz[1], sz[2], sz[3]} :
                        \E i, j \in 1..3 : /\ i # j /\ sz[i] = longest /\ sz[j] = d
                                           /\ \A l \in 1..3 : l # i => sz[l] <= d
       IN  longest > k * Max2(second, 10)

C5_LowBendSignal ==
    \/ /\ analyzeCurvature(bendCall.meshes).success
       /\ analyzeCurvature(bendCall.meshes).bends <= 1
    \/ /\ analyzeDirectionChanges(bendCall.meshes).success
       /\ analyzeDirectionChanges(bendCall.meshes).bends <= 1

\* C5: whatever the three methods report, 0 bends with confidence <= 0.6 when
\* S > 30 and at most 1 bend when S > 22; and when the curvature or the direction
\* method reports <= 1 bend, at most 1 bend for S > 12 and 0 bends for S > 18.
C5_SlendernessGuards ==
    (bendResult # None /\ Len(bendCall.meshes) > 0) =>
        /\ C5_SOver(30) => (bendResult.bendCount = 0 /\ bendResult.confidence <= 600)
        /\ C5_SOver(22) => bendResult.bendCount <= 1
        /\ (C5_SOver(12) /\ C5_LowBendSignal) => bendResult.bendCount <= 1
        /\ (C5_SOver(18) /\ C5_LowBendSignal) => bendResult.bendCount = 0

\* a tube with S > 30 on which curvature and direction both report many bends
\* with confidence above 0.6, and 0 bends are returned
C5_Witness ==
    /\ bendResult # None
    /\ C5_SOver(30)
    /\ analyzeCurvature(bendCall.meshes).bends > 5
    /\ analyzeCurvature(bendCall.meshes).confidence > 600
    /\ analyzeDirectionChanges(bendCall.meshes).bends > 5
    /\ bendResult.bendCount = 0
    /\ bendResult.confidence <= 600

\* the estimates of the succeeding methods for the call, complexity at 0.3
C19_Estimates ==
    LET curvature == analyzeCurvature(bendCall.meshes)
        direction == analyzeDirectionChanges(bendCall.meshes)
    IN  (IF curvature.success
         THEN {[method |-> "curvature", bendCount |-> curvature.bends,
                confidence |-> curvature.confidence]}
         ELSE {})
        \cup (IF direction.success
              THEN {[method |-> "direction", bendCount |-> direction.bends,
                     confidence |-> direction.confidence]}
              ELSE {})
        \cup {[method |-> "complexity", confidence |-> 300,
               bendCount |-> estimateBendsFromComplexity(
                                SumOver(bendCall.meshes, Len(bendCall.meshes), "count"),
                                SumOver(bendCall.meshes, Len(bendCall.meshes),
                                        "indexCount"))]}

\* the method of highest confidence among `estimates`, the earlier one on a tie
\* the place of a method in the list that is sorted (a stable sort)
C19_Place(m) ==
    IF m.method = "curvature" THEN 1 ELSE IF m.method = "direction" THEN 2 ELSE 3

C19_Best(estimates) ==
    CHOOSE m \in estimates :
        \A n \in estimates :
            \/ m.confidence > n.confidence
            \/ m.confidence = n.confidence /\ C19_Place(m) <= C19_Place(n)

\* the two methods of highest confidence (one, when only one succeeded)
C19_TopTwoOf(estimates) ==
    LET first == C19_Best(estimates)
        others == estimates \ {first}
    IN  IF others = {} THEN <<first>> ELSE <<first, C19_Best(others)>>

C19_TopTwo == CHOOSE top \in {C19_TopTwoOf(e) : e \in {C19_Estimates}} : TRUE

\* the confidence-weighted sum of the counts of `top`, and the sum of their
\* confidences
C19_Sum(top) ==
    top[1].bendCount * top[1].confidence
    + (IF Len(top) > 1 THEN top[2].bendCount * top[2].confidence ELSE 0)

C19_Weight(top) == top[1].confidence + (IF Len(top) > 1 THEN top[2].confidence ELSE 0)

\* n = round(sum / weight): the integer with n - 1/2 <= sum / weight < n + 1/2
C19_IsRounded(n, sum, weight) ==
    /\ (2 * n - 1) * weight <= 2 * sum
    /\ 2 * sum < (2 * n + 1) * weight

C19_NoGuard == ~C5_SOver(10)

\* C19 as stated: when S <= 10 or no bounding size is given, the bend count
\* returned is the rounded confidence-weighted average of the counts of the two
\* methods of highest confidence, and the confidence that of the top method.
C19_WeightedAverage ==
    (bendResult # None /\ C19_NoGuard) =>
        \E top \in {C19_TopTwo} :
            /\ C19_IsRounded(bendResult.bendCount, C19_Sum(top), C19_Weight(top))
            /\ bendResult.confidence = top[1].confidence

\* C19 as the code has it: for a non-empty mesh list with S <= 10 or no
\* bounding size, the bend count returned is the smaller of 20 and the rounded
\* confidence-weighted average of the counts of the (up to) two methods of
\* highest confidence, and the confidence is that of the top method; for an
\* empty mesh list it is 0 bends with confidence 0.
C19_ClampedWeightedAverage ==
    (bendResult # None /\ C19_NoGuard) =>
        IF Len(bendCall.meshes) = 0
        THEN bendResult.bendCount = 0 /\ bendResult.confidence = 0
        ELSE \E top \in {C19_TopTwo} : \E sum \in {C19_Sum(top)}, weight \in {C19_Weight(top)} :
                /\ \/ C19_IsRounded(bendResult.bendCount, sum, weight)
                   \/ /\ bendResult.bendCount = 20
                      /\ 41 * weight <= 2 * sum
                /\ bendResult.confidence = top[1].confidence

\* S = 9: curvature (0.9) reports 1 bend and direction (0.7) reports 4, the
\* average 2.31 is rounded to 2 and 0.9 is reported
C19_Witness ==
    /\ bendResult # None
    /\ C5_SOver(8) /\ ~C5_SOver(10)
    /\ analyzeCurvature(bendCall.meshes).bends = 1
    /\ analyzeCurvature(bendCall.meshes).confidence = 900
    /\ analyzeDirectionChanges(bendCall.meshes).bends = 4
    /\ bendResult.bendCount = 2
    /\ bendResult.confidence = 900

C20_Top == C19_TopTwo[1]

\* C20 as stated: if S > 10 and the method of highest confidence reports at
\* most 1 bend, the bend count returned is that method's count, whatever the
\* other methods report.
C20_TopAccepted ==
    (bendResult # None /\ C5_SOver(10) /\ C20_Top.bendCount <= 1) =>
        bendResult.bendCount = C20_Top.bendCount

\* C20 as the code has it: if S > 10 and the method of highest confidence
\* reports at most 1 bend, the bend count returned is 0 when S > 30, or when
\* S > 18 and the curvature or the direction method succeeded with at most 1
\* bend, and that method's count otherwise, whatever the other methods report.
C20_TopAcceptedThenGuarded ==
    (bendResult # None /\ C5_SOver(10) /\ C20_Top.bendCount <= 1) =>
        bendResult.bendCount =
            (IF C5_SOver(30) \/ (C5_SOver(18) /\ C5_LowBendSignal)
             THEN 0 ELSE C20_Top.bendCount)

\* S = 11: curvature (0.9) reports 1 bend and direction (0.7) reports 5, the
\* average would be 3 and 1 is returned
C20_Witness ==
    /\ bendResult # None
    /\ C5_SOver(10) /\ ~C5_SOver(12)
    /\ C20_Top.method = "curvature" /\ C20_Top.bendCount = 1
    /\ analyzeDirectionChanges(bendCall.meshes).bends = 5
    /\ bendResult.bendCount = 1

(***************************************************************************)
(* Length estimator (QuoteDisplay.tsx): calculateTubeLengthMultiMethod     *)
(*                                                                         *)
(* A mesh set is modelled by                                               *)
(*   list      the meshes (see above)                                      *)
(*   size      size of the union of the meshes' bounding boxes, <<x, y, z>>*)
(*             in ticks                                                    *)
(*   skeleton  what the voxel skeleton of the sampled surface gives:       *)
(*             throws (a step raises), medialVoxels, and the arc length    *)
(*             and confidence computed from the ordered centerline         *)
(*   pcaLength, pathLength                                                 *)
(*             the polyline lengths the slicing and the path sampling      *)
(*             arrive at, 0 when they reject their own result              *)
(* Lengths are JavaScript numbers in ticks: Num(v) or NaN.                 *)
(***************************************************************************)
NaN == [nan |-> TRUE]
Num(v) == [nan |-> FALSE, v |-> v]
IsNaN(x) == x.nan
\* x > 0 (false for NaN)
Positive(x) == ~IsNaN(x) /\ x.v > 0

RECURSIVE SampledPoints(_, _, _)
SampledPoints(list, i, samplesPerMesh) ==
    IF i = 0 THEN 0
    ELSE LET count == list[i].count
             stride == Max2(1, count \div samplesPerMesh)
         IN  (IF count = 0 THEN 0 ELSE (count + stride - 1) \div stride)
             + SampledPoints(list, i - 1, samplesPerMesh)

\* samplePointsFromMeshes(meshes, targetSampleCount).length
samplePointsFromMeshes(list, targetSampleCount) ==
    IF Len(list) = 0 THEN 0
    ELSE SampledPoints(list, Len(list), Max2(50, targetSampleCount \div Len(list)))

extractCenterlineBy3DSkeletonization(ms) ==
    IF Len(ms.list) = 0 THEN [length |-> Num(0), confidence |-> 0]
    ELSE IF samplePointsFromMeshes(ms.list, 3000) < 50
         THEN [length |-> Num(0), confidence |-> 0]
    ELSE IF ms.skeleton.throws THEN [length |-> Num(0), confidence |-> 0]
    ELSE IF ms.skeleton.medialVoxels < 2 THEN [length |-> Num(0), confidence |-> 0]
    ELSE [length |-> Num(ms.skeleton.length), confidence |-> ms.skeleton.confidence]

estimateCenterlineLengthBySlicing(ms) ==
    IF samplePointsFromMeshes(ms.list, 2000) < 10 THEN Num(0) ELSE Num(ms.pcaLength)

calculatePathLength(ms) ==
    IF Len(ms.list) # 1 THEN Num(0)
    ELSE IF ms.list[1].count < 10 THEN Num(0)
    ELSE Num(ms.pathLength)

\* floor(sqrt(n)) for lo * lo <= n < hi * hi
RECURSIVE ISqrtBetween(_, _, _)
ISqrtBetween(n, lo, hi) ==
    IF hi - lo <= 1 THEN lo
    ELSE LET mid == (lo + hi) \div 2
         IN  IF mid * mid <= n THEN ISqrtBetween(n, mid, hi) ELSE ISqrtBetween(n, lo, mid)

\* the three sizes, largest first
SortedDimensions(size) ==
    LET longest == Max2(size[1], Max2(size[2], size[3]))
        smallest == Min2(size[1], Min2(size[2], size[3]))
    IN  <<longest, size[1] + size[2] + size[3] - longest - smallest, smallest>>

\* lengthDimension * max(1, sqrt(lengthDimension / averageCrossDimension)) with
\* averageCrossDimension = cross2 / 2 > 0; quotient and root to three decimals
complexLength(lengthDimension, cross2) ==
    LET ratio == ScaledQuotient(2 * lengthDimension, cross2)
        complexity == Max2(1000, ISqrtBetween(ratio * 1000, 0, 4000))
    IN  LimbsToInt(LimbsDiv(LimbsMul(Limbs(lengthDimension), complexity), 1000))

boundingBoxEstimate_OnlyIfPositive(boundingSize) ==
    LET sortedDimensions == SortedDimensions(boundingSize)
        lengthDimension == sortedDimensions[1]
        cross2 == sortedDimensions[2] + sortedDimensions[3]
    IN  IF 2 * lengthDimension > cross2 * 3
        THEN <<[method |-> "Bounding Box", length |-> Num(lengthDimension),
                confidence |-> 500]>>
        ELSE IF cross2 = 0
        THEN <<>>
        ELSE <<[method |-> "Bounding Box",
                length |-> Num(complexLength(lengthDimension, cross2)),
                confidence |-> 200]>>

\* "Method 4: Bounding box analysis (fallback)": the entry pushed to results.
\* averageCrossDimension is cross2 / 2; with lengthDimension = cross2 = 0 the
\* quotient is 0 / 0, Math.max(1, NaN) is NaN and so is the length.
boundingBoxEstimate(boundingSize) ==
    LET sortedDimensions == SortedDimensions(boundingSize)
        lengthDimension == sortedDimensions[1]
        cross2 == sortedDimensions[2] + sortedDimensions[3]
    IN  IF 2 * lengthDimension > cross2 * 3
        THEN <<[method |-> "Bounding Box", length |-> Num(lengthDimension),
                confidence |-> 500]>>
        ELSE IF cross2 = 0
        THEN <<[method |-> "Bounding Box", length |-> NaN, confidence |-> 200]>>
        ELSE <<[method |-> "Bounding Box",
                length |-> Num(complexLength(lengthDimension, cross2)),
                confidence |-> 200]>>

RECURSIVE SumLengths(_, _)
SumLengths(results, i) ==
    IF i = 0 THEN 0 ELSE results[i].length.v + SumLengths(results, i - 1)

RECURSIVE SumSquares(_, _)
SumSquares(results, i) ==
    IF i = 0 THEN Limbs(0)
    ELSE LimbsAdd(LimbsMulBig(Limbs(results[i].length.v), Limbs(results[i].length.v)),
                  SumSquares(results, i - 1))

\* the cross-validation with the loss of confidence left without its floor
crossValidate_NoFloor(results, confidence) ==
    IF \E i \in 1..Len(results) : IsNaN(results[i].length) THEN confidence
    ELSE LET n == Len(results)
             sum == SumLengths(results, n)
             s2 == LimbsMulBig(Limbs(sum), Limbs(sum))
             nq == LimbsMul(SumSquares(results, n), n)
         IN  IF ~LimbsLeq(LimbsMul(s2, 26), LimbsMul(nq, 25))
             THEN Min2(950, confidence + 100)
             ELSE IF ~LimbsLeq(LimbsMul(nq, 4), LimbsMul(s2, 5))
             THEN confidence - 200
             ELSE confidence

\* The cross-validation of results.length > 1 results.  With n lengths of sum S
\* and sum of squares Q, variance / avg^2 = (n Q - S^2) / S^2, so
\*   CV < 0.2  iff  25 n Q < 26 S^2      CV > 0.5  iff  4 n Q > 5 S^2
\* A NaN among the lengths makes CV NaN and both comparisons false.
crossValidate(results, confidence) ==
    IF \E i \in 1..Len(results) : IsNaN(results[i].length) THEN confidence
    ELSE LET n == Len(results)
             sum == SumLengths(results, n)
             s2 == LimbsMulBig(Limbs(sum), Limbs(sum))
             nq == LimbsMul(SumSquares(results, n), n)
         IN  IF ~LimbsLeq(LimbsMul(s2, 26), LimbsMul(nq, 25))
             THEN Min2(950, confidence + 100)
             ELSE IF ~LimbsLeq(LimbsMul(nq, 4), LimbsMul(s2, 5))
             THEN Max2(100, confidence - 200)
             ELSE confidence

calculateTubeLengthMultiMethod(ms, boundingSize, units) ==
    IF Len(ms.list) = 0
    THEN [bestLength |-> Num(0), method |-> "none", confidence |-> 0, allResults |-> <<>>]
    ELSE
    LET skeletonResult == extractCenterlineBy3DSkeletonization(ms)
        pcaLength == estimateCenterlineLengthBySlicing(ms)
        pathLength == calculatePathLength(ms)
        results ==
            (IF Positive(skeletonResult.length)
             THEN <<[method |-> "3D Skeletonization", length |-> skeletonResult.length,
                     confidence |-> skeletonResult.confidence]>>
             ELSE <<>>)
            \o (IF Positive(pcaLength)
                THEN <<[method |-> "PCA Slicing", length |-> pcaLength, confidence |-> 700]>>
                ELSE <<>>)
            \o (IF Positive(pathLength)
                THEN <<[method |-> "Path Calculation", length |-> pathLength,
                        confidence |-> 600]>>
                ELSE <<>>)
            \o boundingBoxEstimate(boundingSize)
    IN  IF Len(results) = 0
        THEN [bestLength |-> Num(0), method |-> "none", confidence |-> 0,
              allResults |-> <<>>]
        ELSE LET sorted == SortByConfidence(results)
                 bestResult == sorted[1]
             IN  [bestLength |-> bestResult.length,
                  method |-> bestResult.method,
                  confidence |-> IF Len(sorted) > 1
                                 THEN crossValidate(sorted, bestResult.confidence)
                                 ELSE bestResult.confidence,
                  allResults |-> sorted]

(***************************************************************************)
(* calculateTubeLengthMultiMethod on its own                               *)
(***************************************************************************)
MaxLengthUnits == 3
MaxBoxRatio == 4

\* lengths an estimator may report, in ticks
EstimatorLengths == {40000 * i : i \in 1..MaxLengthUnits}
\* combinedConfidence values: below the bounding box's 0.2 and its 0.5, between
\* the 0.6 of path calculation and the 0.7 of PCA slicing, and above both
SkeletonConfidences == {170, 350, 650, 930}

SkeletonOutcomes ==
    {[throws |-> TRUE, medialVoxels |-> 0, length |-> 0, confidence |-> 0]}
    \cup {[throws |-> FALSE, medialVoxels |-> n, length |-> 0, confidence |-> 0] :
             n \in {0, 1}}
    \cup [throws : {FALSE}, medialVoxels : {2, 40}, length : EstimatorLengths,
          confidence : SkeletonConfidences]

\* overall bounding sizes: a point, a line along x, and boxes k : 1 : 1
LengthSizes ==
    {<<0, 0, 0>>, <<5000, 0, 0>>}
    \cup {<<10000 * k, 10000, 10000>> : k \in 0..MaxBoxRatio}

LengthMeshLists ==
    {<<>>} \cup {<<m>> : m \in {n \in BendMeshes : n.indexCount = 0 /\ n.curvatureChanges = 0
                                                   /\ n.directionChanges = 0}}
           \cup {<<m, m>> : m \in {n \in MeshesOf(500, 0, 0) : n.indexCount = 0}}

\* What the geometry allows the three estimators to find inside a box of the
\* given size:
\*   - a box with a zero side has no interior voxel (the thinning loops run over
\*     1 .. dims - 2), and a box of size 0 gives resolution 0 and an empty grid;
\*   - the PCA projections of coincident points span nothing;
\*   - the sampled path is returned only when longer than 0.8 of the diagonal,
\*     which is at least the longest side.
Realizable(ms, size) ==
    LET sortedDimensions == SortedDimensions(size)
    IN  /\ sortedDimensions[3] = 0 => ms.skeleton.medialVoxels = 0
        /\ sortedDimensions[1] = 0 => ms.pcaLength = 0 /\ ms.pathLength = 0
        /\ ms.pathLength > 0 => 10 * ms.pathLength > 8 * sortedDimensions[1]

LengthCalls ==
    {c \in [meshes : [list : LengthMeshLists, skeleton : SkeletonOutcomes,
                      pcaLength : {0} \cup EstimatorLengths,
                      pathLength : {0} \cup EstimatorLengths],
            boundingSize : LengthSizes,
            units : {"millimeter"}] :
        Realizable(c.meshes, c.boundingSize)}

InitLength ==
    /\ lengthCall \in LengthCalls
    /\ lengthResult = None
    /\ IdleQuote /\ IdleBend /\ IdleParse /\ IdleOverlap /\ IdleUnits /\ IdleApp

\* calculateTubeLengthMultiMethod(meshes, boundingSize, units) is called and
\* its promise resolves
CalculateTubeLength ==
    /\ lengthResult = None
    /\ lengthResult' = calculateTubeLengthMultiMethod(lengthCall.meshes,
                           lengthCall.boundingSize, lengthCall.units)
    /\ UNCHANGED <<lengthCall, quoteVars, bendVars, parseVars, appVars>>

NextLength == CalculateTubeLength

SpecLength == InitLength /\ [][NextLength]_vars

(***************************************************************************)
(* Claims about calculateTubeLengthMultiMethod                             *)
(***************************************************************************)
LengthMethods == {"3D Skeletonization", "PCA Slicing", "Path Calculation", "Bounding Box"}

ThreeEstimatorsFailed(call) ==
    /\ ~Positive(extractCenterlineBy3DSkeletonization(call.meshes).length)
    /\ ~Positive(estimateCenterlineLengthBySlicing(call.meshes))
    /\ ~Positive(calculatePathLength(call.meshes))

\* C7: when the overall bounding box has largest dimension 0, every estimator
\* including the bounding-box fallback is skipped, and the reported length
\* method is "none" with length 0.
C7_ZeroBoxReportsNone ==
    (lengthResult # None /\ SortedDimensions(lengthCall.boundingSize)[1] = 0)
        => /\ lengthResult.method = "none"
           /\ lengthResult.bestLength = Num(0)
           /\ lengthResult.allResults = <<>>

\* C8: for every non-empty mesh set, whichever of skeletonization, PCA slicing
\* and path sampling fail or throw, calculateTubeLengthMultiMethod returns a
\* result whose method is one of the four estimator names, and the bounding-box
\* fallback is always among the candidates.
C8_EstimatorFailureNotFatal ==
    (lengthResult # None /\ Len(lengthCall.meshes.list) > 0)
        => /\ lengthResult.method \in LengthMethods
           /\ \E i \in 1..Len(lengthResult.allResults) :
                  lengthResult.allResults[i].method = "Bounding Box"

\* a non-empty mesh set with too few samples for skeletonization on which PCA
\* slicing and path sampling failed as well, answered by the fallback
C8_Witness ==
    /\ lengthResult # None
    /\ Len(lengthCall.meshes.list) > 0
    /\ samplePointsFromMeshes(lengthCall.meshes.list, 3000) < 50
    /\ ThreeEstimatorsFailed(lengthCall)
    /\ lengthResult.method = "Bounding Box"

(***************************************************************************)
(* Units (QuoteDisplay.tsx).  A string whose characters the code inspects  *)
(* (unit names, file names, STEP header arguments) is a sequence of        *)
(* one-character strings; the empty sequence is '' and stands for an       *)
(* absent (undefined / null) string as well, both being falsy.             *)
(*                                                                         *)
(* Where a value is used many times it is computed once and bound:         *)
(*   CHOOSE r \in {F(v) : v \in {e}} : TRUE   is F(e).                      *)
(***************************************************************************)
UpperCaseLetters == <<"A", "B", "C", "D", "E", "F", "G", "H", "I", "J", "K", "L", "M", "N",
    "O", "P", "Q", "R", "S", "T", "U", "V", "W", "X", "Y", "Z">>
LowerCaseLetters == <<"a", "b", "c", "d", "e", "f", "g", "h", "i", "j", "k", "l", "m", "n",
    "o", "p", "q", "r", "s", "t", "u", "v", "w", "x", "y", "z">>

LowerChar(c) ==
    CHOOSE r \in {IF \E i \in 1..Len(UpperCaseLetters) : UpperCaseLetters[i] = v
                  THEN LowerCaseLetters[CHOOSE i \in 1..Len(UpperCaseLetters) :
                                           UpperCaseLetters[i] = v]
                  ELSE v : v \in {c}} : TRUE

RECURSIVE LowerFrom(_, _)
LowerFrom(str, i) ==
    IF i > Len(str) THEN <<>> ELSE <<LowerChar(str[i])>> \o LowerFrom(str, i + 1)

toLowerCase(str) == CHOOSE r \in {LowerFrom(s, 1) : s \in {str}} : TRUE

WhiteSpace == {" ", "\t", "\n", "\r"}

\* the positions of str that hold no white space
Inked(str) == {i \in 1..Len(str) : str[i] \notin WhiteSpace}
First(positions) == CHOOSE i \in positions : \A k \in positions : i <= k
Last(positions) == CHOOSE i \in positions : \A k \in positions : k <= i

trimStart(str) ==
    CHOOSE r \in {IF Inked(s) = {} THEN <<>> ELSE SubSeq(s, First(Inked(s)), Len(s)) :
                     s \in {str}} : TRUE

trimEnd(str) ==
    CHOOSE r \in {IF Inked(s) = {} THEN <<>> ELSE SubSeq(s, 1, Last(Inked(s))) :
                     s \in {str}} : TRUE

trim(str) == trimEnd(trimStart(str))

\* str.replace(/\./g, '')
removeDots(str) == SelectSeq(str, LAMBDA c : c # ".")

\* the characters of str as one TLA+ string
RECURSIVE JoinFrom(_, _)
JoinFrom(str, i) == IF i > Len(str) THEN "" ELSE str[i] \o JoinFrom(str, i + 1)

Join(str) == CHOOSE r \in {JoinFrom(s, 1) : s \in {str}} : TRUE

\* table[key] || default, for a table given as a sequence of <<key, value>>
Lookup(table, key, default) ==
    CHOOSE r \in {IF \E i \in 1..Len(table) : table[i][1] = k
                  THEN table[CHOOSE i \in 1..Len(table) : table[i][1] = k][2]
                  ELSE default : k \in {key}} : TRUE

millimeter == <<"m", "i", "l", "l", "i", "m", "e", "t", "e", "r">>
meter == <<"m", "e", "t", "e", "r">>
centimeter == <<"c", "e", "n", "t", "i", "m", "e", "t", "e", "r">>
micrometer == <<"m", "i", "c", "r", "o", "m", "e", "t", "e", "r">>
nanometer == <<"n", "a", "n", "o", "m", "e", "t", "e", "r">>
inch == <<"i", "n", "c", "h">>
foot == <<"f", "o", "o", "t">>
yard == <<"y", "a", "r", "d">>
unknown == <<"u", "n", "k", "n", "o", "w", "n">>

\* normalizeUnitName's alias table
unitMappings ==
    <<<<<<"m", "i", "l", "l", "i">>, millimeter>>,
      <<<<"m", "i", "l", "l", "i", "m", "e", "t", "r", "e">>, millimeter>>,
      <<<<"m", "m">>, millimeter>>,
      <<<<"m", "e", "t", "r", "e">>, meter>>,
      <<<<"m">>, meter>>,
      <<<<"c", "e", "n", "t", "i", "m", "e", "t", "r", "e">>, centimeter>>,
      <<<<"c", "m">>, centimeter>>,
      <<<<"i", "n">>, inch>>,
      <<<<"\"">>, inch>>,
      <<<<"f", "t">>, foot>>,
      <<<<"'">>, foot>>,
      <<<<"y", "d">>, yard>>>>

normalizeUnitName(unit) ==
    CHOOSE r \in {Lookup(unitMappings, normalized, normalized) :
                     normalized \in {removeDots(trim(toLowerCase(unit)))}} : TRUE

\* Conversion factors to millimeters, in 1e-6.  The key written 'U+0152 U+00BA m'
\* is the three-character key of the source's micro-sign entry.
UNIT_CONVERSION_TO_MM ==
    <<<<<<"m", "e", "t", "r", "e">>, 1000000000>>,
      <<<<"m", "e", "t", "e", "r">>, 1000000000>>,
      <<<<"m">>, 1000000000>>,
      <<<<"m", "i", "l", "l", "i", "m", "e", "t", "r", "e">>, 1000000>>,
      <<<<"m", "i", "l", "l", "i", "m", "e", "t", "e", "r">>, 1000000>>,
      <<<<"m", "m">>, 1000000>>,
      <<<<"c", "e", "n", "t", "i", "m", "e", "t", "r", "e">>, 10000000>>,
      <<<<"c", "e", "n", "t", "i", "m", "e", "t", "e", "r">>, 10000000>>,
      <<<<"c", "m">>, 10000000>>,
      <<<<"m", "i", "c", "r", "o", "m", "e", "t", "r", "e">>, 1000>>,
      <<<<"m", "i", "c", "r", "o", "m", "e", "t", "e", "r">>, 1000>>,
      <<<<"U+0152", "U+00BA", "m">>, 1000>>,
      <<<<"n", "a", "n", "o", "m", "e", "t", "r", "e">>, 1>>,
      <<<<"n", "a", "n", "o", "m", "e", "t", "e", "r">>, 1>>,
      <<<<"n", "m">>, 1>>,
      <<<<"i", "n", "c", "h">>, 25400000>>,
      <<<<"i", "n">>, 25400000>>,
      <<<<"\"">>, 25400000>>,
      <<<<"f", "o", "o", "t">>, 304800000>>,
      <<<<"f", "t">>, 304800000>>,
      <<<<"'">>, 304800000>>,
      <<<<"y", "a", "r", "d">>, 914400000>>,
      <<<<"y", "d">>, 914400000>>,
      <<<<".", "m", "e", "t", "r", "e", ".">>, 1000000000>>,
      <<<<".", "m", "i", "l", "l", "i", ".">>, 1000000>>,
      <<<<".", "m", "i", "l", "l", "i", "m", "e", "t", "r", "e", ".">>, 1000000>>,
      <<<<".", "i", "n", "c", "h", ".">>, 25400000>>,
      <<<<"u", "n", "k", "n", "o", "w", "n">>, 1000000>>,
      <<<<>>, 1000000>>>>

\* length * factor: a length in ticks becomes Limbs in 1e-10 mm; NaN stays NaN
Times(length, factor) ==
    IF IsNaN(length) THEN NaN
    ELSE CHOOSE r \in {Num(LimbsTrim(LimbsMulBig(a, b))) :
                          a \in {Limbs(length.v)}, b \in {Limbs(factor)}} : TRUE

convertToMillimeters_NoFactor(length, fromUnit) == Times(length, 1000000)

convertToMillimeters(length, fromUnit) ==
    CHOOSE r \in {Times(length, conversionFactor) :
                     conversionFactor \in {Lookup(UNIT_CONVERSION_TO_MM,
                                                  normalizeUnitName(fromUnit), 1000000)}} : TRUE

\* reasonableRanges, in ticks
reasonableRanges ==
    <<<<millimeter, [min |-> 1000, max |-> 100000000, typical |-> 1000000]>>,
      <<meter, [min |-> 10, max |-> 1000000, typical |-> 1000]>>,
      <<inch, [min |-> 100, max |-> 10000000, typical |-> 40000]>>,
      <<foot, [min |-> 10, max |-> 1000000, typical |-> 3300]>>,
      <<centimeter, [min |-> 100, max |-> 10000000, typical |-> 100000]>>>>

\* ceil(10^(j/10) * 1e4) for j = 1 .. 14
TenthsOfDecade ==
    <<12590, 15849, 19953, 25119, 31623, 39811, 50119,
      63096, 79433, 100000, 125893, 158490, 199527, 251189>>

\* Math.abs(Math.log10(maxDimension / typical)) in tenths, rounded towards 0 and
\* capped at 1.4 (where the confidence has reached its floor); both arguments > 0
typicalDistance(maxDimension, typical) ==
    CHOOSE r \in {Cardinality({j \in 1..Len(TenthsOfDecade) :
                                 LimbsLeq(LimbsMulBig(lo, Limbs(TenthsOfDecade[j])), hi)}) :
                     lo \in {Limbs(Min2(maxDimension, typical))},
                     hi \in {LimbsMul(Limbs(Max2(maxDimension, typical)), 10000)}} : TRUE

SuggestSmaller_ToMeter(normalizedUnit) ==
    IF normalizedUnit = meter THEN millimeter
    ELSE IF normalizedUnit = foot THEN inch
    ELSE IF normalizedUnit = centimeter THEN meter
    ELSE normalizedUnit

SuggestSmaller(normalizedUnit) ==
    IF normalizedUnit = meter THEN millimeter
    ELSE IF normalizedUnit = foot THEN inch
    ELSE IF normalizedUnit = centimeter THEN millimeter
    ELSE normalizedUnit

SuggestLarger(normalizedUnit) ==
    IF normalizedUnit = millimeter THEN meter
    ELSE IF normalizedUnit = inch THEN foot
    ELSE IF normalizedUnit = centimeter THEN meter
    ELSE normalizedUnit

ValidateRange(normalizedUnit, range, maxDimension) ==
        IF range = None
        THEN [isValid |-> FALSE, confidence |-> 0, suggestedUnit |-> <<>>]
        ELSE IF maxDimension < range.min
        THEN [isValid |-> FALSE, confidence |-> 100,
              suggestedUnit |-> SuggestSmaller(normalizedUnit)]
        ELSE IF maxDimension > range.max
        THEN [isValid |-> FALSE, confidence |-> 100,
              suggestedUnit |-> SuggestLarger(normalizedUnit)]
        ELSE [isValid |-> TRUE,
              confidence |-> Max2(300, Min2(950,
                                 1000 - 50 * typicalDistance(maxDimension, range.typical))),
              suggestedUnit |-> <<>>]

\* confidence in 1e-3; suggestedUnit <<>> when the field is absent
validateUnitsAgainstGeometry(units, boundingSize) ==
    CHOOSE r \in {ValidateRange(normalizedUnit,
                                Lookup(reasonableRanges, normalizedUnit, None),
                                maxDimension) :
                     normalizedUnit \in {normalizeUnitName(units)},
                     maxDimension \in {Max2(boundingSize[1],
                                            Max2(boundingSize[2], boundingSize[3]))}} : TRUE

estimateUnitsFromGeometry(boundingSize) ==
    LET maxDimension == Max2(boundingSize[1], Max2(boundingSize[2], boundingSize[3]))
    IN  IF maxDimension < 10000 THEN meter ELSE millimeter

(***************************************************************************)
(* Units declared in a STEP header.  The first 8 KB of the file are a      *)
(* sequence of entity instances [entity, args, follow]: the keyword, the   *)
(* texts between the commas of its parenthesised list, and the text of the *)
(* list element that follows the closing parenthesis and a comma (<<>> if  *)
(* none).  The argument texts hold neither ',' nor ')'.                    *)
(***************************************************************************)
\* the match of \s*\.([^,)]+)\. at the start of arg, <<>> if there is none: the
\* characters between the leading dot and the last dot; toEnd is the \s*, of
\* the first pattern, which lets only white space follow the last dot
DottedFrom(a, dots, toEnd) ==
    IF a = <<>> \/ Head(a) # "." THEN <<>>
    ELSE IF Last(dots) < 3 THEN <<>>
    ELSE IF toEnd /\ trimStart(SubSeq(a, Last(dots) + 1, Len(a))) # <<>> THEN <<>>
    ELSE SubSeq(a, 2, Last(dots) - 1)

DottedCapture(arg, toEnd) ==
    CHOOSE r \in {DottedFrom(a, {j \in 1..Len(a) : a[j] = "."}, toEnd) :
                     a \in {trimStart(arg)}} : TRUE

\* keywords that end in UNIT, which /UNIT\s*\(/ matches as well
UnitKeywords == {"UNIT", "SI_UNIT", "LENGTH_UNIT", "NAMED_UNIT", "CONVERSION_BASED_UNIT",
                 "UNCERTAINTY_MEASURE_WITH_UNIT"}

\* match[1] of siUnitPatterns[n] on one entity instance, <<>> if it does not match
SiUnitCapture(n, inst) ==
    IF n = 1
    THEN IF inst.entity = "SI_UNIT" /\ Len(inst.args) >= 3 /\ trim(inst.args[1]) = <<"*">>
         THEN DottedCapture(inst.args[2], TRUE) ELSE <<>>
    ELSE IF n = 2
    THEN IF inst.entity = "SI_UNIT" /\ Len(inst.args) >= 3 /\ trim(inst.args[1]) = <<"*">>
         THEN \* \s*([^,)]+): an argument of white space only yields its last character
              IF trimStart(inst.args[2]) = <<>> /\ inst.args[2] # <<>>
              THEN <<inst.args[2][Len(inst.args[2])]>>
              ELSE trimStart(inst.args[2])
         ELSE <<>>
    ELSE IF n = 3
    THEN IF inst.entity = "LENGTH_UNIT" /\ inst.args = <<>>
         THEN DottedCapture(inst.follow, FALSE) ELSE <<>>
    ELSE IF inst.entity \in UnitKeywords /\ Len(inst.args) >= 2
            /\ trim(toLowerCase(inst.args[1])) = toLowerCase(<<"L", "E", "N", "G", "T", "H", "_", "M", "E", "A", "S", "U", "R", "E">>)
         THEN DottedCapture(inst.args[2], FALSE) ELSE <<>>

UncertaintyCapture(inst) ==
    IF inst.entity = "UNCERTAINTY_MEASURE_WITH_UNIT" /\ Len(inst.args) >= 2
    THEN DottedCapture(inst.args[2], FALSE) ELSE <<>>

\* the first match of pattern n over the instances of the text, <<>> if none
\* pattern 5 is uncertaintyPattern
Capture(n, inst) == IF n = 5 THEN UncertaintyCapture(inst) ELSE SiUnitCapture(n, inst)

FirstCapture(text, n) ==
    LET hits == {i \in 1..Len(text) : Capture(n, text[i]) # <<>>}
    IN  IF hits = {} THEN <<>>
        ELSE Capture(n, text[CHOOSE i \in hits : \A k \in hits : i <= k])

unitMapping ==
    <<<<<<"m", "i", "l", "l", "i">>, millimeter>>,
      <<<<"m", "i", "l", "l", "i", "m", "e", "t", "r", "e">>, millimeter>>,
      <<<<"m", "e", "t", "r", "e">>, meter>>,
      <<<<"i", "n", "c", "h">>, inch>>,
      <<<<"f", "o", "o", "t">>, foot>>>>

\* the patterns are tried in order, each over the whole text
RECURSIVE SiUnitFrom(_, _)
SiUnitFrom(n, text) ==
    IF n > 4 THEN <<>>
    ELSE IF FirstCapture(text, n) # <<>>
    THEN CHOOSE r \in {Lookup(unitMapping, unit, unit) :
                          unit \in {removeDots(trim(toLowerCase(FirstCapture(text, n))))}} : TRUE
    ELSE SiUnitFrom(n + 1, text)

\* the detected unit, <<>> for null
parseUnitsFromStepFile(f) ==
    LET text == f.header
        hasSiUnit == \E n \in 1..4 : FirstCapture(text, n) # <<>>
        uncertainty == FirstCapture(text, 5)
    IN  IF hasSiUnit THEN SiUnitFrom(1, text)
        ELSE IF uncertainty # <<>>
        THEN CHOOSE r \in {IF unit = <<"m", "i", "l", "l", "i">> THEN millimeter ELSE unit :
                              unit \in {trim(removeDots(toLowerCase(uncertainty)))}} : TRUE
        ELSE <<>>

\* the same sources with result.metadata.units looked at before result.units
detectUnitsFromResult_MetadataFirst(res, fileType, originalFile) ==
    IF res.metadata # None /\ res.metadata.units # <<>>
    THEN normalizeUnitName(toLowerCase(res.metadata.units))
    ELSE IF res.units # <<>> THEN normalizeUnitName(toLowerCase(res.units))
    ELSE IF fileType = "step" /\ res.lengthUnit # <<>>
    THEN normalizeUnitName(toLowerCase(res.lengthUnit))
    ELSE IF fileType = "step" /\ originalFile # None
            /\ parseUnitsFromStepFile(originalFile) # <<>>
    THEN normalizeUnitName(parseUnitsFromStepFile(originalFile))
    ELSE millimeter

detectUnitsFromResult(res, fileType, originalFile) ==
    IF res.units # <<>> THEN normalizeUnitName(toLowerCase(res.units))
    ELSE IF res.metadata # None /\ res.metadata.units # <<>>
    THEN normalizeUnitName(toLowerCase(res.metadata.units))
    ELSE IF fileType = "step" /\ res.lengthUnit # <<>>
    THEN normalizeUnitName(toLowerCase(res.lengthUnit))
    ELSE IF fileType = "step" /\ originalFile # None
            /\ parseUnitsFromStepFile(originalFile) # <<>>
    THEN normalizeUnitName(parseUnitsFromStepFile(originalFile))
    ELSE millimeter

(***************************************************************************)
(* parseCADFile (QuoteDisplay.tsx): decoding, mesh building and            *)
(* analyzeGeometry.                                                        *)
(*   a decoder mesh (meshData) is [position, count, indexCount,            *)
(*   curvatureChanges, directionChanges, size]: whether it carries a       *)
(*   position array, the number of vertices and of indices, what the bend  *)
(*   methods find on it, and the size of its vertices' bounding box, whose *)
(*   minimum corner is the origin.                                         *)
(***************************************************************************)
\* fileName.split('.').pop() of the lowercased name
AfterLast(fileName, dots) ==
    IF dots = {} THEN fileName ELSE SubSeq(fileName, Last(dots) + 1, Len(fileName))

ExtensionOf(name) ==
    CHOOSE r \in {AfterLast(fileName, {j \in 1..Len(fileName) : fileName[j] = "."}) :
                     fileName \in {toLowerCase(name)}} : TRUE

DecoderOf_NoStp(extension) ==
    IF extension = <<"s", "t", "e", "p">> THEN "step"
    ELSE IF extension \in {<<"i", "g", "e", "s">>, <<"i", "g", "s">>} THEN "iges"
    ELSE IF extension = <<"d", "x", "f">> THEN "dxf"
    ELSE ""

\* the decoder parseCADFile's switch selects, "" for the default branch
DecoderOf(extension) ==
    IF extension \in {<<"s", "t", "e", "p">>, <<"s", "t", "p">>} THEN "step"
    ELSE IF extension \in {<<"i", "g", "e", "s">>, <<"i", "g", "s">>} THEN "iges"
    ELSE IF extension = <<"d", "x", "f">> THEN "dxf"
    ELSE ""

getSupportedExtensions == {<<"s", "t", "e", "p">>, <<"s", "t", "p">>, <<"i", "g", "e", "s">>, <<"i", "g", "s">>, <<"d", "x", "f">>}

isSupportedFile(fileName) == ExtensionOf(fileName) \in getSupportedExtensions

\* the upload validators of FileUploadStep.tsx and of the home page; size in bytes
MAX_FILE_SIZE == 50 * 1024 * 1024
validExtensions == {<<"s", "t", "e", "p">>, <<"s", "t", "p">>, <<"i", "g", "e", "s">>, <<"i", "g", "s">>, <<"d", "x", "f">>}
ACCEPTED_FILE_TYPES == {<<"s", "t", "e", "p">>, <<"s", "t", "p">>, <<"i", "g", "e", "s">>, <<"i", "g", "s">>, <<"d", "x", "f">>}

validateFile(name, size) ==
    IF size > MAX_FILE_SIZE
    THEN [isValid |-> FALSE, error |-> "File size must be under 50MB"]
    ELSE IF ExtensionOf(name) = <<>> \/ ExtensionOf(name) \notin validExtensions
    THEN [isValid |-> FALSE,
          error |-> "File must be in STEP (.step, .stp), IGES (.iges, .igs), or DXF (.dxf) format"]
    ELSE [isValid |-> TRUE, error |-> ""]

HomePage_validateFile(name, size) ==
    IF size > MAX_FILE_SIZE
    THEN [isValid |-> FALSE, error |-> "File size must be under 50MB"]
    ELSE IF ExtensionOf(name) = <<>> \/ ExtensionOf(name) \notin ACCEPTED_FILE_TYPES
    THEN [isValid |-> FALSE,
          error |-> "File must be in STEP (.step, .stp), IGES (.iges, .igs), or DXF (.dxf) format"]
    ELSE [isValid |-> TRUE, error |-> ""]

\* Box3: an empty box has min = +Infinity and max = -Infinity
EmptyBox == [empty |-> TRUE]
Box3(min, max) == [empty |-> FALSE, min |-> min, max |-> max]

union(a, b) ==
    IF b.empty THEN a
    ELSE IF a.empty THEN b
    ELSE Box3(<<Min2(a.min[1], b.min[1]), Min2(a.min[2], b.min[2]), Min2(a.min[3], b.min[3])>>,
              <<Max2(a.max[1], b.max[1]), Max2(a.max[2], b.max[2]), Max2(a.max[3], b.max[3])>>)

getSize(box) ==
    IF box.empty THEN <<0, 0, 0>>
    ELSE <<box.max[1] - box.min[1], box.max[2] - box.min[2], box.max[3] - box.min[3]>>

\* geometry.center(): the box is moved to be centred on the origin
center(box) ==
    IF box.empty THEN box
    ELSE LET size == getSize(box)
         IN  Box3(<<0 - size[1] \div 2, 0 - size[2] \div 2, 0 - size[3] \div 2>>,
                  <<size[1] - size[1] \div 2, size[2] - size[2] \div 2,
                    size[3] - size[3] \div 2>>)

\* geometry.scale(s, s, s), which recomputes the bounding box
scale(box, s) ==
    IF box.empty THEN box
    ELSE Box3(<<s * box.min[1], s * box.min[2], s * box.min[3]>>,
              <<s * box.max[1], s * box.max[2], s * box.max[3]>>)

computeBoundingBox(meshData) ==
    IF meshData.count = 0 THEN EmptyBox ELSE Box3(<<0, 0, 0>>, meshData.size)

\* the BufferGeometry built from a decoder mesh, as far as the analysis reads it
GeometryOf(meshData) ==
    [count |-> meshData.count, indexCount |-> meshData.indexCount,
     curvatureChanges |-> meshData.curvatureChanges,
     directionChanges |-> meshData.directionChanges,
     boundingBox |-> computeBoundingBox(meshData)]

\* the one geometry parseDxf builds, with the transformations it applies to it
DxfGeometry(meshData, opts) ==
    CHOOSE r \in {IF opts.centerGeometry
                  THEN [scaled EXCEPT !.boundingBox = center(@)] ELSE scaled :
                     scaled \in {IF opts.scale # 0 /\ opts.scale # 1
                                 THEN [GeometryOf(meshData) EXCEPT
                                          !.boundingBox = scale(@, opts.scale)]
                                 ELSE GeometryOf(meshData)}} : TRUE

\* the loop over result.meshes: a mesh without position data is skipped
RECURSIVE StandardMeshes(_)
StandardMeshes(meshDatas) ==
    IF meshDatas = <<>> THEN <<>>
    ELSE (IF Head(meshDatas).position THEN <<GeometryOf(Head(meshDatas))>> ELSE <<>>)
         \o StandardMeshes(Tail(meshDatas))

\* analysisMeshes of parseStepOrIges, the alternative structure included
analysisMeshesOf(res) ==
    \* result.meshes is an array, empty when the decoder reports none
    LET standard == StandardMeshes(res.meshes)
    IN  IF standard = <<>> /\ res.root # None /\ res.root.count > 0
        THEN <<GeometryOf(res.root)>>
        ELSE standard

RECURSIVE overallBox(_)
overallBox(list) ==
    IF list = <<>> THEN EmptyBox
    ELSE union(overallBox(SubSeq(list, 1, Len(list) - 1)), list[Len(list)].boundingBox)

EstimatedCuts_FromThree(estimatedBends) ==
    IF estimatedBends >= 3 THEN 2 + estimatedBends \div 3 ELSE 2

\* "Estimate cuts - typically start and end, plus any additional cuts"
EstimatedCuts(estimatedBends) ==
    IF estimatedBends > 3 THEN 2 + estimatedBends \div 3 ELSE 2

\* finalUnits of analyzeGeometry
FinalUnits(units, size) ==
    CHOOSE r \in {IF ~unitValidation.isValid /\ unitValidation.suggestedUnit # <<>>
                  THEN unitValidation.suggestedUnit
                  ELSE units :
                     unitValidation \in {validateUnitsAgainstGeometry(units, size)}} : TRUE

\* the call analyzeGeometry makes to calculateTubeLengthMultiMethod; ms is
\* [list, skeleton, pcaLength, pathLength]
LengthCallOf(ms, units) ==
    CHOOSE r \in {[meshes |-> ms, boundingSize |-> size, units |-> FinalUnits(units, size)] :
                     size \in {getSize(overallBox(ms.list))}} : TRUE

BoxCorner(box, corner) ==
    IF box.empty
    THEN IF corner = "min" THEN <<"Infinity", "Infinity", "Infinity">>
         ELSE <<"-Infinity", "-Infinity", "-Infinity">>
    ELSE box[corner]

\* the record analyzeGeometry returns for a non-empty mesh list
AnalysisRecord(units, box, finalUnits, bendAnalysis, lengthResults) ==
    [totalLength |-> convertToMillimeters(lengthResults.bestLength, finalUnits),
     estimatedBends |-> bendAnalysis.bendCount,
     estimatedCuts |-> EstimatedCuts(bendAnalysis.bendCount),
     units |-> millimeter,
     originalUnits |-> finalUnits,
     unitConfidence |-> validateUnitsAgainstGeometry(units, getSize(box)).confidence,
     lengthCalculationMethod |-> lengthResults.method,
     lengthConfidence |-> lengthResults.confidence,
     boundingBox |-> [min |-> BoxCorner(box, "min"), max |-> BoxCorner(box, "max"),
                      size |-> getSize(box)]]

\* bend analysis and length calculation on the overall box, with the final units
AnalysisOn(ms, units, box, finalUnits) ==
    CHOOSE r \in {AnalysisRecord(units, box, finalUnits, bendAnalysis, lengthResults) :
                     bendAnalysis \in {analyzeBends(ms.list, [size |-> getSize(box)])},
                     lengthResults \in {calculateTubeLengthMultiMethod(ms, getSize(box),
                                                                       finalUnits)}} : TRUE

AnalysisOf(ms, units) ==
    IF Len(ms.list) = 0
    THEN [totalLength |-> Num(<<0>>), estimatedBends |-> 0, estimatedCuts |-> 2,
          units |-> IF units # <<>> THEN units ELSE unknown,
          boundingBox |-> [min |-> <<0, 0, 0>>, max |-> <<0, 0, 0>>, size |-> <<0, 0, 0>>]]
    ELSE CHOOSE r \in {AnalysisOn(ms, units, box, FinalUnits(units, getSize(box))) :
                          box \in {overallBox(ms.list)}} : TRUE

analyzeGeometry(meshList, detected) ==
    CHOOSE r \in {AnalysisOf(ms, units) : ms \in {meshList}, units \in {detected}} : TRUE

(***************************************************************************)
(* Inputs of the parseCADFile specification                                *)
(***************************************************************************)
MaxAnalysisBends == 21

NoUnitHeader == <<>>
StepHeaders ==
    {NoUnitHeader,
     <<[entity |-> "SI_UNIT", args |-> <<<<"*">>, <<".", "M", "I", "L", "L", "I", ".">>, <<".", "M", "E", "T", "R", "E", ".">>>>, follow |-> <<>>]>>,
     <<[entity |-> "SI_UNIT", args |-> <<<<"*">>, <<" ", "$">>, <<".", "M", "E", "T", "R", "E", ".">>>>, follow |-> <<>>]>>,
     <<[entity |-> "SI_UNIT", args |-> <<<<"*">>, <<".", "C", "E", "N", "T", "I", ".">>, <<".", "M", "E", "T", "R", "E", ".">>>>, follow |-> <<>>]>>,
     <<[entity |-> "LENGTH_UNIT", args |-> <<>>, follow |-> <<>>],
       [entity |-> "NAMED_UNIT", args |-> <<<<"*">>>>, follow |-> <<>>],
       [entity |-> "SI_UNIT", args |-> <<<<".", "M", "I", "L", "L", "I", ".">>, <<".", "M", "E", "T", "R", "E", ".">>>>, follow |-> <<>>]>>,
     <<[entity |-> "SI_UNIT", args |-> <<<<"*">>, <<"$">>, <<".", "M", "E", "T", "R", "E", ".">>>>, follow |-> <<>>],
       [entity |-> "SI_UNIT", args |-> <<<<"*">>, <<".", "M", "I", "L", "L", "I", ".">>, <<".", "M", "E", "T", "R", "E", ".">>>>, follow |-> <<>>]>>,
     <<[entity |-> "UNIT", args |-> <<<<"L", "E", "N", "G", "T", "H", "_", "M", "E", "A", "S", "U", "R", "E">>, <<".", "I", "N", "C", "H", ".">>>>, follow |-> <<>>]>>,
     <<[entity |-> "UNCERTAINTY_MEASURE_WITH_UNIT", args |-> <<<<"1", ".", "E", "-", "0", "7">>, <<".", "M", "I", "L", "L", "I", ".">>>>, follow |-> <<>>]>>}

Files ==
    [name : {<<"p", "a", "r", "t", ".", "s", "t", "e", "p">>}, header : StepHeaders]
    \cup [name : {<<"P", "A", "R", "T", ".", "S", "T", "P">>, <<"a", ".", "i", "g", "e", "s">>, <<"a", ".", "i", "g", "s">>,
             <<"p", "l", "a", "t", "e", ".", "d", "x", "f">>, <<"D", "x", "F">>,
             <<"m", "e", "s", "h", ".", "s", "t", "l">>, <<"R", "E", "A", "D", "M", "E">>,
             <<"a", ".", "s", "t", "e", "p", ".", "b", "a", "k">>, <<"s", "t", "e", "p", ".">>,
             <<".", "s", "t", "e", "p", "s">>, <<>>},
          header : {NoUnitHeader}]

\* overall sizes in ticks, from a point to 10500 file units
AnalysisSizes ==
    {<<0, 0, 0>>, <<5, 1, 1>>, <<500, 100, 100>>, <<50000, 10000, 10000>>,
     <<1200000, 10000, 10000>>, <<105000000, 10000, 10000>>}

UnitCube == <<10000, 10000, 10000>>

\* a tube of 500 vertices on which both bend methods find `bends` bends
Tube(bends, size) ==
    [position |-> TRUE, count |-> 500, indexCount |-> 1500,
     curvatureChanges |-> 3 * bends, directionChanges |-> 2 * bends, size |-> size]

MeshData ==
    {Tube(b, UnitCube) : b \in 0..MaxAnalysisBends}
    \cup {Tube(0, size) : size \in AnalysisSizes \ {<<0, 0, 0>>}}
    \cup {\* five coincident vertices, and an empty position array
          [position |-> TRUE, count |-> 5, indexCount |-> 0, curvatureChanges |-> 0,
           directionChanges |-> 0, size |-> <<0, 0, 0>>],
          [position |-> TRUE, count |-> 0, indexCount |-> 0, curvatureChanges |-> 0,
           directionChanges |-> 0, size |-> <<0, 0, 0>>]}

NoPosition ==
    [position |-> FALSE, count |-> 0, indexCount |-> 0, curvatureChanges |-> 0,
     directionChanges |-> 0, size |-> <<0, 0, 0>>]

DegenerateLists == {<<>>, <<NoPosition>>}

\* the unit fields a decoder result may carry
UnitFields ==
    [units : {<<>>, <<"M", "M">>, <<" ", "I", "n", "c", "h", " ">>, <<"y", "d">>,
              <<"f", "u", "r", "l", "o", "n", "g">>},
     metadata : {None, [units |-> <<"c", "m">>]},
     lengthUnit : {<<>>, <<".", "M", "E", "T", "R", "E", ".">>}]

DecoderResult(fields, meshDatas, root) ==
    [success |-> TRUE, units |-> fields.units, metadata |-> fields.metadata,
     lengthUnit |-> fields.lengthUnit, meshes |-> meshDatas, root |-> root]

\* What ReadStepFile / ReadIgesFile may return for file f: null, a failure, or
\*   - every combination of unit fields with every size of geometry,
\*   - every number of bends on a unit cube declared in MM,
\*   - no renderable mesh, with and without vertices under result.root;
\* a file whose header declares a unit holds a straight 5 x 1 x 1 tube.
DecoderResults(f) ==
    {None, [success |-> FALSE]}
    \cup (IF f.header = NoUnitHeader
          THEN {DecoderResult(fields, <<m>>, None) :
                   fields \in UnitFields, m \in MeshData \ {Tube(b, UnitCube) : b \in 1..MaxAnalysisBends}}
               \cup {DecoderResult([units |-> <<"M", "M">>, metadata |-> None, lengthUnit |-> <<>>],
                                   list, None) :
                        list \in {<<Tube(b, UnitCube)>> : b \in 1..MaxAnalysisBends}
                                 \cup {<<NoPosition, Tube(2, UnitCube)>>,
                                       <<Tube(1, UnitCube), Tube(1, UnitCube)>>}}
               \cup {DecoderResult([units |-> <<>>, metadata |-> None, lengthUnit |-> <<>>],
                                   list, root) :
                        list \in DegenerateLists, root \in {None, NoPosition, Tube(0, UnitCube)}}
          ELSE {DecoderResult(fields, <<Tube(0, <<50000, 10000, 10000>>)>>, None) :
                   fields \in UnitFields})

\* what the three estimators find on the analysed geometry
Estimates ==
    [skeleton : {[throws |-> TRUE, medialVoxels |-> 0, length |-> 0, confidence |-> 0],
                 [throws |-> FALSE, medialVoxels |-> 40, length |-> 40000,
                  confidence |-> 930]},
     pcaLength : {0, 80000},
     pathLength : {0, 120000}]

MeshSet(list, estimate) ==
    [list |-> list, skeleton |-> estimate.skeleton, pcaLength |-> estimate.pcaLength,
     pathLength |-> estimate.pathLength]

\* defaultOptions of parseCADFile, and the options its caller passes
Options == [scale : {1, 2}, centerGeometry : BOOLEAN]
CallerOptions == [scale |-> 1, centerGeometry |-> TRUE]

\* other options than the caller's are explored on the DXF files, one IGES
\* file and one unsupported file
OptionFiles ==
    {f \in Files : f.name \in {<<"p", "l", "a", "t", "e", ".", "d", "x", "f">>, <<"D", "x", "F">>,
                               <<"a", ".", "i", "g", "s">>, <<"R", "E", "A", "D", "M", "E">>}}

\* what DXFLoader.parse returns: null, or the vertices of the LINE and POLYLINE
\* entities as one decoder mesh (count 0 when there are none)
DxfData ==
    {None, [geometry |-> NoPosition]}
    \cup {[geometry |-> Tube(b, <<50000, 10000, 0>>)] : b \in {0, 4}}
    \cup {[geometry |-> Tube(0, <<0, 0, 0>>)], [geometry |-> Tube(0, <<5000, 0, 0>>)]}

(***************************************************************************)
(* One invocation of parseCADFile(file, { scale: 1, centerGeometry: true })*)
(* pc follows the invocation through its awaits:                           *)
(*   "idle" -> "decode" -> "detect" -> "analyze" -> "done"   STEP and IGES *)
(*   "idle" -> "dxf" -> "done"                               DXF           *)
(* and "failed" once the returned promise is rejected.                     *)
(***************************************************************************)
InitAnalysis ==
    /\ pc = "idle"
    /\ file \in Files
    /\ options \in Options
    /\ options = CallerOptions \/ file \in OptionFiles
    /\ dxfData = None
    /\ IdleOverlap /\ IdleUnits
    /\ result = None /\ meshes = None /\ detectedUnits = <<>> /\ error = ""
    /\ analysis = None
    /\ IdleQuote /\ IdleBend /\ IdleLength /\ IdleApp

fileTypeOf(f) == DecoderOf(ExtensionOf(f.name))

FileTypeUpperCase(fileType) == IF fileType = "step" THEN "STEP" ELSE "IGES"

\* the catch of parseStepOrIges wraps the message of whatever was thrown
StepOrIgesError(fileType, message) ==
    "Failed to parse " \o FileTypeUpperCase(fileType) \o " file: " \o message

\* parseCADFile picks the decoder from the extension
ParseCADFile ==
    /\ pc = "idle"
    /\ \E extension \in {ExtensionOf(file.name)} :
           IF DecoderOf(extension) = ""
           THEN /\ pc' = "failed"
                /\ error' = "Unsupported file format: " \o Join(extension)
           ELSE /\ pc' = (IF DecoderOf(extension) = "dxf" THEN "dxf" ELSE "decode")
                /\ UNCHANGED error
    /\ UNCHANGED <<file, options, dxfData, result, meshes, detectedUnits, analysis>>
    /\ UNCHANGED <<quoteVars, unitVars, bendVars, lengthVars, overlapVars, appVars>>

\* parseStepOrIges: ReadStepFile / ReadIgesFile returns
ReadFile ==
    /\ pc = "decode"
    /\ \E res \in DecoderResults(file) :
          /\ result' = res
          /\ IF res = None \/ ~res.success
             THEN /\ pc' = "failed"
                  /\ error' = StepOrIgesError(fileTypeOf(file),
                                  StepOrIgesError(fileTypeOf(file), "Unknown error"))
             ELSE /\ pc' = "detect"
                  /\ UNCHANGED error
    /\ UNCHANGED <<file, options, dxfData, meshes, detectedUnits, analysis>>
    /\ UNCHANGED <<quoteVars, unitVars, bendVars, lengthVars, overlapVars, appVars>>

\* parseStepOrIges: detectUnitsFromResult resolves
DetectUnits ==
    /\ pc = "detect"
    /\ detectedUnits' = detectUnitsFromResult(result, fileTypeOf(file), file)
    /\ pc' = "analyze"
    /\ UNCHANGED <<file, options, dxfData, result, meshes, error, analysis>>
    /\ UNCHANGED <<quoteVars, unitVars, bendVars, lengthVars, overlapVars, appVars>>

\* analyzeGeometry on the given meshes; the estimators find `estimate` on them
Analyze(list, units) ==
    \E estimate \in Estimates :
       \E call \in {LengthCallOf(MeshSet(list, estimate), units)} :
           /\ Realizable(call.meshes, call.boundingSize)
           /\ meshes' = call.meshes
           /\ lengthCall' = call
           /\ lengthResult' = calculateTubeLengthMultiMethod(call.meshes,
                                  call.boundingSize, call.units)
           /\ analysis' = analyzeGeometry(call.meshes, units)
           /\ pc' = "done"

\* parseStepOrIges: the meshes are built and analysed
AnalyzeStepOrIges ==
    /\ pc = "analyze"
    /\ \E analysisMeshes \in {analysisMeshesOf(result)} :
           IF analysisMeshes = <<>>
           THEN /\ pc' = "failed"
                /\ error' = StepOrIgesError(fileTypeOf(file),
                       "No valid geometry found in file. The file may not contain renderable mesh data.")
                /\ UNCHANGED <<meshes, analysis, lengthVars>>
           ELSE /\ Analyze(analysisMeshes, detectedUnits)
                /\ UNCHANGED error
    /\ UNCHANGED <<file, options, dxfData, result, detectedUnits>>
    /\ UNCHANGED <<quoteVars, unitVars, bendVars, overlapVars, appVars>>

\* parseDxf: the drawing is loaded, turned into one mesh and analysed
ParseDxf ==
    /\ pc = "dxf"
    /\ \E data \in DxfData :
          /\ dxfData' = data
          /\ IF data = None
             THEN /\ pc' = "failed"
                  /\ error' = "Failed to parse DXF file: Failed to parse DXF file"
                  /\ UNCHANGED <<meshes, detectedUnits, analysis, lengthVars>>
             ELSE IF data.geometry.count = 0
             THEN /\ pc' = "failed"
                  /\ error' = "Failed to parse DXF file: No valid geometry found in DXF file"
                  /\ UNCHANGED <<meshes, detectedUnits, analysis, lengthVars>>
             ELSE \E geometry \in {DxfGeometry(data.geometry, options)} :
                     \E units \in {estimateUnitsFromGeometry(getSize(geometry.boundingBox))} :
                         /\ detectedUnits' = units
                         /\ Analyze(<<geometry>>, units)
                         /\ UNCHANGED error
    /\ UNCHANGED <<file, options, result>>
    /\ UNCHANGED <<quoteVars, unitVars, bendVars, overlapVars, appVars>>

NextAnalysis ==
    \/ ParseCADFile
    \/ ReadFile
    \/ DetectUnits
    \/ AnalyzeStepOrIges
    \/ ParseDxf

SpecAnalysis == InitAnalysis /\ [][NextAnalysis]_vars

(***************************************************************************)
(* Claims about the analysis parseCADFile returns                          *)
(***************************************************************************)
\* C3: in every analysis result, estimatedCuts = 2 + floor(estimatedBends / 3)
\* when estimatedBends > 3 and estimatedCuts = 2 otherwise; hence
\* estimatedCuts >= 2 always.
C3_CutsFromBends ==
    analysis # None =>
        /\ analysis.estimatedBends > 3 =>
               analysis.estimatedCuts = 2 + analysis.estimatedBends \div 3
        /\ analysis.estimatedBends <= 3 => analysis.estimatedCuts = 2
        /\ analysis.estimatedCuts >= 2

\* an analysis of a part with seven bends, which takes two additional cuts
C3_Witness ==
    /\ pc = "done"
    /\ analysis.estimatedBends = 7
    /\ analysis.estimatedCuts = 4

\* C6: for every analysis that parseCADFile returns, totalLength is finite
\* (never NaN or infinite) and >= 0, and it equals 0 only when the reported
\* length method is "none".
C6_TotalLengthFinite ==
    analysis # None =>
        /\ ~IsNaN(analysis.totalLength)
        /\ analysis.totalLength.v = <<0>> => analysis.lengthCalculationMethod = "none"

NormalizedUnitNames ==
    {millimeter, centimeter, meter, micrometer, nanometer, inch, foot, yard, unknown}

\* C9: for every decoder metadata and every STEP header text, the originalUnits
\* reported by the analysis is one of the normalized names millimeter,
\* centimeter, meter, micrometer, nanometer, inch, foot, yard, unknown.
C9_OriginalUnitsNormalized ==
    analysis # None => analysis.originalUnits \in NormalizedUnitNames

\* the factors to millimeters the claim lists, in 1e-6
C10_Factor(unit) ==
    IF unit = millimeter THEN 1000000
    ELSE IF unit = centimeter THEN 10000000
    ELSE IF unit = meter THEN 1000000000
    ELSE IF unit = inch THEN 25400000
    ELSE IF unit = foot THEN 304800000
    ELSE 914400000

\* C10: totalLength equals the selected estimator's length in file units
\* multiplied by the factor of the final original unit (millimeter 1,
\* centimeter 10, meter 1000, inch 25.4, foot 304.8, yard 914.4), and the units
\* field of every analysis returned by parseCADFile is "millimeter".
C10_LengthConvertedByFactor ==
    analysis # None =>
        /\ analysis.units = millimeter
        /\ analysis.originalUnits \in {millimeter, centimeter, meter, inch, foot, yard} =>
               analysis.totalLength =
                   Times(lengthResult.bestLength, C10_Factor(analysis.originalUnits))

\* a part measured in inches whose PCA-slicing length of 8 in is stored as
\* 203.2 mm
C10_Witness ==
    /\ pc = "done"
    /\ analysis.originalUnits = inch
    /\ lengthResult.method = "PCA Slicing"
    /\ lengthResult.bestLength = Num(80000)
    /\ analysis.totalLength = Num(<<0, 0, 320, 2>>)
    /\ analysis.units = millimeter

\* the decoder result carries no unit field and the header matches no pattern
NoUnitSource ==
    /\ result.units = <<>>
    /\ result.metadata = None \/ result.metadata.units = <<>>
    /\ result.lengthUnit = <<>>
    /\ \A n \in 1..5 : FirstCapture(file.header, n) = <<>>

\* C11: when the decoder metadata carries no unit field and the STEP header
\* matches none of the unit patterns, the analysis reports original unit
\* millimeter with unit confidence 0.2.
C11_DefaultMillimeter ==
    (pc = "done" /\ result # None /\ NoUnitSource) =>
        /\ analysis.originalUnits = millimeter
        /\ analysis.unitConfidence = 200

\* file sizes on both sides of the upload limit
FileSizes == {0, MAX_FILE_SIZE, MAX_FILE_SIZE + 1}

C12_Step == {<<"s", "t", "e", "p">>, <<"s", "t", "p">>}
C12_Iges == {<<"i", "g", "e", "s">>, <<"i", "g", "s">>}
C12_Dxf == {<<"d", "x", "f">>}
C12_Supported == C12_Step \cup C12_Iges \cup C12_Dxf

\* C12: parseCADFile selects the decoder by the lowercased text after the last
\* dot of the file name: step/stp go to the STEP decoder, iges/igs to the IGES
\* decoder, dxf to the DXF decoder, and every other extension fails with an
\* unsupported-format error before any decoding or analysis is attempted;
\* isSupportedFile and the two upload validators (for a file within the size
\* limit) accept exactly the names with one of these five extensions.
C12_DecoderByExtension ==
    \E ext \in {ExtensionOf(file.name)} :
        /\ pc \in {"decode", "detect", "analyze"} => ext \in C12_Step \cup C12_Iges
        /\ pc = "dxf" => ext \in C12_Dxf
        /\ (pc = "done" /\ ext \in C12_Dxf) => result = None
        /\ (pc = "done" /\ ext \notin C12_Dxf) => result # None
        /\ (pc = "failed" /\ ext \in C12_Step) =>
               error \in {StepOrIgesError("step", StepOrIgesError("step", "Unknown error")),
                          StepOrIgesError("step", "No valid geometry found in file. The file may not contain renderable mesh data.")}
        /\ (pc = "failed" /\ ext \in C12_Iges) =>
               error \in {StepOrIgesError("iges", StepOrIgesError("iges", "Unknown error")),
                          StepOrIgesError("iges", "No valid geometry found in file. The file may not contain renderable mesh data.")}
        /\ (pc = "failed" /\ ext \in C12_Dxf) =>
               error \in {"Failed to parse DXF file: Failed to parse DXF file",
                          "Failed to parse DXF file: No valid geometry found in DXF file"}
        /\ ext \notin C12_Supported =>
               /\ pc \in {"idle", "failed"}
               /\ result = None /\ meshes = None /\ analysis = None
               /\ pc = "failed" => error = "Unsupported file format: " \o Join(ext)
        /\ isSupportedFile(file.name) <=> ext \in C12_Supported
        /\ \A size \in FileSizes :
               /\ validateFile(file.name, size).isValid
                      <=> (size <= MAX_FILE_SIZE /\ ext \in C12_Supported)
               /\ HomePage_validateFile(file.name, size).isValid
                      <=> (size <= MAX_FILE_SIZE /\ ext \in C12_Supported)

\* a .stl file was refused before any decoding
C12_Witness ==
    /\ pc = "failed"
    /\ error = "Unsupported file format: stl"
    /\ result = None
    /\ ~isSupportedFile(file.name)
    /\ ~validateFile(file.name, 0).isValid

\* the decoder meshes of a result that carry at least one vertex
MeshesWithVertices(res) ==
    {i \in 1..Len(res.meshes) : res.meshes[i].position /\ res.meshes[i].count > 0}

\* C13: whenever parseCADFile returns, every mesh it analysed and returns has
\* a non-empty position buffer (at least one vertex); a decoder result that
\* reports failure, or that yields no mesh with vertices, makes the call fail
\* with an error and no result.
C13_NonEmptyPositions ==
    /\ pc = "done" => \A i \in 1..Len(meshes.list) : meshes.list[i].count > 0
    /\ (pc = "done" /\ result # None) =>
           /\ result.success
           /\ MeshesWithVertices(result) # {}
                  \/ (result.root # None /\ result.root.count > 0)
    /\ pc = "failed" => (error # "" /\ analysis = None /\ meshes = None)

\* the meshes of the file as decoded, before any display transformation
UnmodifiedMeshes ==
    IF dxfData # None THEN <<GeometryOf(dxfData.geometry)>> ELSE analysisMeshesOf(result)

\* the units detected on the unmodified geometry
UnmodifiedUnits ==
    IF dxfData # None
    THEN estimateUnitsFromGeometry(getSize(computeBoundingBox(dxfData.geometry)))
    ELSE detectedUnits

\* C14: the numeric analysis (length, bends, cuts, units, bounding box) is
\* computed on the unmodified geometry in original units and does not depend
\* on the display options: for every file of every supported format and every
\* scale / centerGeometry option, the analysis record is the one analyzeGeometry
\* gives for the geometry as decoded.
C14_AnalysisIgnoresDisplayOptions ==
    pc = "done" =>
        analysis = analyzeGeometry([meshes EXCEPT !.list = UnmodifiedMeshes], UnmodifiedUnits)

(***************************************************************************)
(* Overlapping invocations of parseCADFile.  An invocation runs without    *)
(* interruption from one await to the next; at an await any other          *)
(* invocation may run.  invocation[p] holds the position of invocation p   *)
(* and its local variables; occtInstance is the one module-level variable. *)
(* Every instance the factory makes decodes a file alike.                  *)
(*   "idle" -> "import" -> "factory" -> "read" -> "detect" -> "analyze"    *)
(*          -> "done"                                        STEP and IGES *)
(*   "idle" -> "dxf" -> "done"                               DXF           *)
(***************************************************************************)
Invocations == 1..2

OverlapFiles ==
    {[name |-> <<"p", "a", "r", "t", ".", "s", "t", "e", "p">>,
      header |-> <<[entity |-> "SI_UNIT", args |-> <<<<"*">>, <<".", "M", "I", "L", "L", "I", ".">>, <<".", "M", "E", "T", "R", "E", ".">>>>, follow |-> <<>>]>>],
     [name |-> <<"a", ".", "i", "g", "s">>, header |-> NoUnitHeader],
     [name |-> <<"p", "l", "a", "t", "e", ".", "d", "x", "f">>, header |-> NoUnitHeader]}

\* what the decoder returns for each of these files, and what the estimators find
DecodedOf(f) ==
    IF fileTypeOf(f) = "step"
    THEN DecoderResult([units |-> <<>>, metadata |-> None, lengthUnit |-> <<>>],
                       <<Tube(2, <<50000, 10000, 10000>>)>>, None)
    ELSE DecoderResult([units |-> <<"M", "M">>, metadata |-> None, lengthUnit |-> <<>>],
                       <<Tube(0, <<1200000, 10000, 10000>>)>>, None)

DrawingOf(f) == [geometry |-> Tube(4, <<50000, 10000, 0>>)]

EstimateOf(f) ==
    [skeleton |-> [throws |-> TRUE, medialVoxels |-> 0, length |-> 0, confidence |-> 0],
     pcaLength |-> 0, pathLength |-> 0]

NewInvocation(f) ==
    [pc |-> "idle", file |-> f, instance |-> 0, result |-> None, detectedUnits |-> <<>>,
     analysis |-> None]

InitOverlap ==
    /\ occtInstance = 0
    /\ invocation \in {inv \in [Invocations -> {NewInvocation(f) : f \in OverlapFiles}] :
                           inv[1].file # inv[2].file}
    /\ IdleQuote /\ IdleBend /\ IdleLength /\ IdleParse /\ IdleUnits /\ IdleApp

\* parseCADFile is called: up to the first await of parseStepOrIges or parseDxf
StartInvocation(p) ==
    /\ invocation[p].pc = "idle"
    /\ invocation' = [invocation EXCEPT ![p].pc =
                         IF fileTypeOf(invocation[p].file) = "dxf" THEN "dxf"
                         ELSE IF occtInstance = 0 THEN "import"
                         ELSE "read"]
    /\ UNCHANGED <<occtInstance, quoteVars, unitVars, bendVars, lengthVars, singleVars, appVars>>

\* import('occt-import-js') resolves and the factory is called
Imported(p) ==
    /\ invocation[p].pc = "import"
    /\ invocation' = [invocation EXCEPT ![p].pc = "factory"]
    /\ UNCHANGED <<occtInstance, quoteVars, unitVars, bendVars, lengthVars, singleVars, appVars>>

\* occtInstance = await occtImportFactory(...)
FactoryResolved(p) ==
    /\ invocation[p].pc = "factory"
    /\ occtInstance' = occtInstance + 1
    /\ invocation' = [invocation EXCEPT ![p].pc = "read"]
    /\ UNCHANGED <<quoteVars, unitVars, bendVars, lengthVars, singleVars, appVars>>

\* file.arrayBuffer() resolves; occtInstance.ReadStepFile / ReadIgesFile
BufferRead(p) ==
    /\ invocation[p].pc = "read"
    /\ invocation' = [invocation EXCEPT ![p].pc = "detect",
                                        ![p].instance = occtInstance,
                                        ![p].result = DecodedOf(invocation[p].file)]
    /\ UNCHANGED <<occtInstance, quoteVars, unitVars, bendVars, lengthVars, singleVars, appVars>>

\* detectUnitsFromResult resolves
UnitsDetected(p) ==
    /\ invocation[p].pc = "detect"
    /\ invocation' = [invocation EXCEPT
                         ![p].pc = "analyze",
                         ![p].detectedUnits =
                             detectUnitsFromResult(invocation[p].result,
                                 fileTypeOf(invocation[p].file), invocation[p].file)]
    /\ UNCHANGED <<occtInstance, quoteVars, unitVars, bendVars, lengthVars, singleVars, appVars>>

\* the meshes are built, analyzeGeometry resolves and parseStepOrIges returns
GeometryAnalyzed(p) ==
    /\ invocation[p].pc = "analyze"
    /\ invocation' = [invocation EXCEPT
                         ![p].pc = "done",
                         ![p].analysis =
                             analyzeGeometry(MeshSet(analysisMeshesOf(invocation[p].result),
                                                     EstimateOf(invocation[p].file)),
                                             invocation[p].detectedUnits)]
    /\ UNCHANGED <<occtInstance, quoteVars, unitVars, bendVars, lengthVars, singleVars, appVars>>

DxfAnalysis(geometry, estimate) ==
    analyzeGeometry(MeshSet(<<geometry>>, estimate),
                    estimateUnitsFromGeometry(getSize(geometry.boundingBox)))

\* parseDxf, which does not use the tessellator
DxfParsed(p) ==
    /\ invocation[p].pc = "dxf"
    /\ invocation' = [invocation EXCEPT
                         ![p].pc = "done",
                         ![p].analysis =
                             DxfAnalysis(DxfGeometry(DrawingOf(invocation[p].file).geometry,
                                                     CallerOptions),
                                         EstimateOf(invocation[p].file))]
    /\ UNCHANGED <<occtInstance, quoteVars, unitVars, bendVars, lengthVars, singleVars, appVars>>

NextOverlap ==
    \/ \E p \in Invocations : StartInvocation(p)
    \/ \E p \in Invocations : Imported(p)
    \/ \E p \in Invocations : FactoryResolved(p)
    \/ \E p \in Invocations : BufferRead(p)
    \/ \E p \in Invocations : UnitsDetected(p)
    \/ \E p \in Invocations : GeometryAnalyzed(p)
    \/ \E p \in Invocations : DxfParsed(p)

SpecOverlap == InitOverlap /\ [][NextOverlap]_vars

\* what parseCADFile returns for file f when it runs alone
SequentialAnalysis(f) ==
    IF fileTypeOf(f) = "dxf"
    THEN DxfAnalysis(DxfGeometry(DrawingOf(f).geometry, CallerOptions), EstimateOf(f))
    ELSE analyzeGeometry(MeshSet(analysisMeshesOf(DecodedOf(f)), EstimateOf(f)),
                         detectUnitsFromResult(DecodedOf(f), fileTypeOf(f), f))

\* C15: two parseCADFile invocations that overlap in time on different files
\* produce exactly the results they would produce when run one after the
\* other, for every interleaving of their await points; the cached tessellator
\* instance is initialized at most once and never replaced afterwards.
C15_OverlapIndependent ==
    /\ \A p \in Invocations :
           invocation[p].pc = "done" =>
               invocation[p].analysis = SequentialAnalysis(invocation[p].file)
    /\ occtInstance <= 1

(***************************************************************************)
(* Claims about unit detection                                             *)
(***************************************************************************)
\* the header patterns in their listed order (the four siUnitPatterns, then
\* uncertaintyPattern) that match somewhere in the header of the file
C16_MatchingPatterns == {n \in 1..5 : FirstCapture(file.header, n) # <<>>}

\* the unit the first of the matching patterns yields from its first match
C16_HeaderUnit ==
    \E n \in {First(C16_MatchingPatterns)} :
       \E unit \in {removeDots(trim(toLowerCase(FirstCapture(file.header, n))))} :
          detectedUnits = normalizeUnitName(IF n < 5 THEN Lookup(unitMapping, unit, unit)
                                            ELSE IF unit = <<"m", "i", "l", "l", "i">>
                                            THEN millimeter ELSE unit)

C16_IsStep == ExtensionOf(file.name) \in C12_Step

\* C16: unit detection takes the first available source in this fixed order
\* and never consults a later one when an earlier one is present: decoder
\* field units, then metadata.units, then (STEP files only) lengthUnit, then
\* (STEP files only) the first match in the header of the patterns tried in
\* their listed order, and otherwise millimeter; for IGES files lengthUnit and
\* the header scan are never used.
C16_DetectionPriority ==
    (pc \in {"analyze", "done"} /\ result # None) =>
        IF result.units # <<>>
        THEN detectedUnits = normalizeUnitName(toLowerCase(result.units))
        ELSE IF result.metadata # None /\ result.metadata.units # <<>>
        THEN detectedUnits = normalizeUnitName(toLowerCase(result.metadata.units))
        ELSE IF C16_IsStep /\ result.lengthUnit # <<>>
        THEN detectedUnits = normalizeUnitName(toLowerCase(result.lengthUnit))
        ELSE IF C16_IsStep /\ C16_MatchingPatterns # {}
        THEN C16_HeaderUnit
        ELSE detectedUnits = millimeter

\* units, metadata.units and lengthUnit are all present in the result of a STEP
\* file whose header declares a unit, and the units field was taken; and a
\* header whose first entity matches the second pattern and whose second
\* entity matches the first pattern gave the unit of the first pattern
C16_Witness ==
    /\ pc = "done"
    /\ C16_IsStep
    /\ \/ /\ result.units = <<" ", "I", "n", "c", "h", " ">>
          /\ result.metadata # None
          /\ result.lengthUnit # <<>>
          /\ C16_MatchingPatterns # {}
          /\ detectedUnits = inch
       \/ /\ result.units = <<>> /\ result.metadata = None /\ result.lengthUnit = <<>>
          /\ Len(file.header) = 2
          /\ C16_MatchingPatterns = {1, 2}
          /\ Capture(1, file.header[1]) = <<>>
          /\ detectedUnits = millimeter

(***************************************************************************)
(* Unit validation and override, as analyzeGeometry performs them on the   *)
(* detected units and the size of the overall bounding box.                *)
(***************************************************************************)
\* largest dimensions in ticks, on both sides of every limit of reasonableRanges
ValidationDimensions ==
    {0, 5, 9, 10, 99, 100, 999, 1000, 1001, 3300, 33000, 40000, 100000, 400000,
     1000000, 1000001, 10000000, 10000001, 100000000, 100000001}

ValidationSizes ==
    {<<d, 0, 0>> : d \in ValidationDimensions}
    \cup {<<0, Min2(d, 3), d>> : d \in ValidationDimensions}

ValidatedUnits ==
    {millimeter, meter, inch, foot, centimeter, yard, <<"f", "u", "r", "l", "o", "n", "g">>}

InitUnits ==
    /\ unitCall \in [units : ValidatedUnits, boundingSize : ValidationSizes]
    /\ unitResult = None
    /\ IdleQuote /\ IdleBend /\ IdleLength /\ IdleParse /\ IdleOverlap /\ IdleApp

\* analyzeGeometry validates the detected units and settles the final units
ValidateUnits ==
    /\ unitResult = None
    /\ unitResult' =
           [validation |-> validateUnitsAgainstGeometry(unitCall.units, unitCall.boundingSize),
            originalUnits |-> FinalUnits(unitCall.units, unitCall.boundingSize)]
    /\ UNCHANGED <<unitCall, quoteVars, bendVars, lengthVars, singleVars, overlapVars, appVars>>

NextUnits == ValidateUnits

SpecUnits == InitUnits /\ [][NextUnits]_vars

C17_D == Max2(unitCall.boundingSize[1], Max2(unitCall.boundingSize[2], unitCall.boundingSize[3]))
C17_Range == Lookup(reasonableRanges, unitCall.units, None)
C17_Ranged == unitCall.units \in {millimeter, meter, inch, foot, centimeter}
C17_TooSmall == C17_Ranged /\ C17_D < C17_Range.min
C17_TooLarge == C17_Ranged /\ C17_D > C17_Range.max

\* the neighbouring units the claim lists
C17_Smaller ==
    <<<<meter, millimeter>>, <<foot, inch>>, <<centimeter, millimeter>>>>
C17_Larger ==
    <<<<millimeter, meter>>, <<inch, foot>>, <<centimeter, meter>>>>

\* the confidence of a unit whose range holds D, where the claim's formula
\* gives it exactly: D = typical gives 0.95, D a factor 10 from typical gives
\* 0.5, D a factor 100 or more from typical gives 0.3
C17_ConfidenceInRange ==
    /\ unitResult.validation.confidence >= 300
    /\ unitResult.validation.confidence <= 950
    /\ C17_D = C17_Range.typical => unitResult.validation.confidence = 950
    /\ (C17_D = 10 * C17_Range.typical \/ 10 * C17_D = C17_Range.typical) =>
           unitResult.validation.confidence = 500
    /\ (C17_D >= 100 * C17_Range.typical \/ C17_D <= C17_Range.typical \div 100) =>
           unitResult.validation.confidence = 300

\* C17 as stated: when the detected unit is millimeter, meter, inch, foot or
\* centimeter and D lies outside that unit's valid range, original_units is
\* overridden by the neighbouring unit and unit_confidence is 0.1; when D lies
\* inside the range the unit is kept and unit_confidence is
\* max(0.3, min(0.95, 1 - |log10(D/typical)|/2)); unit_confidence always lies
\* in [0, 1].
C17_OverriddenOutsideRange ==
    unitResult # None =>
        /\ (C17_TooSmall \/ C17_TooLarge) =>
               /\ unitResult.originalUnits # unitCall.units
               /\ unitResult.validation.confidence = 100
        /\ (C17_Ranged /\ ~C17_TooSmall /\ ~C17_TooLarge) =>
               /\ unitResult.originalUnits = unitCall.units
               /\ C17_ConfidenceInRange
        /\ unitResult.validation.confidence \in 0..1000

\* C17 (amended): outside the range unit_confidence is 0.1 and original_units
\* is overridden in the six listed cases only (D too small: meter to
\* millimeter, foot to inch, centimeter to millimeter; D too large: millimeter
\* to meter, inch to foot, centimeter to meter); millimeter and inch with D too
\* small and meter and foot with D too large are kept.  Inside the range the
\* unit is kept with the confidence of the formula; unit_confidence always
\* lies in [0, 1].
C17_ValidationOverride ==
    unitResult # None =>
        /\ C17_TooSmall =>
               /\ unitResult.originalUnits =
                      Lookup(C17_Smaller, unitCall.units, unitCall.units)
               /\ unitResult.validation.confidence = 100
        /\ C17_TooLarge =>
               /\ unitResult.originalUnits =
                      Lookup(C17_Larger, unitCall.units, unitCall.units)
               /\ unitResult.validation.confidence = 100
        /\ (C17_Ranged /\ ~C17_TooSmall /\ ~C17_TooLarge) =>
               /\ unitResult.originalUnits = unitCall.units
               /\ unitResult.validation.isValid
               /\ C17_ConfidenceInRange
        /\ unitResult.validation.confidence \in 0..1000

\* a part declared in centimeters whose largest dimension of 0.0005 is below
\* the range of that unit was taken to be in millimeters
C17_Witness ==
    /\ unitResult # None
    /\ unitCall.units = centimeter
    /\ C17_D = 5
    /\ unitResult.originalUnits = millimeter
    /\ unitResult.validation.confidence = 100

(***************************************************************************)
(* Claims about the selection and cross-validation of the length estimates *)
(***************************************************************************)
C18_Methods == {lengthResult.allResults[i].method : i \in 1..Len(lengthResult.allResults)}

\* the estimators that succeeded on the meshes of the call
C18_Succeeded ==
    (IF Positive(extractCenterlineBy3DSkeletonization(lengthCall.meshes).length)
     THEN {"3D Skeletonization"} ELSE {})
    \cup (IF Positive(estimateCenterlineLengthBySlicing(lengthCall.meshes))
          THEN {"PCA Slicing"} ELSE {})
    \cup (IF Positive(calculatePathLength(lengthCall.meshes))
          THEN {"Path Calculation"} ELSE {})
    \cup {"Bounding Box"}

\* the returned length and method are those of an entry of the highest confidence
C18_BestSelected ==
    \E i \in 1..Len(lengthResult.allResults) :
        /\ lengthResult.method = lengthResult.allResults[i].method
        /\ lengthResult.bestLength = lengthResult.allResults[i].length
        /\ \A j \in 1..Len(lengthResult.allResults) :
               lengthResult.allResults[j].confidence
                   <= lengthResult.allResults[i].confidence

C18_OwnConfidence ==
    CHOOSE c \in 0..1000 :
        /\ \E i \in 1..Len(lengthResult.allResults) :
               lengthResult.allResults[i].confidence = c
        /\ \A j \in 1..Len(lengthResult.allResults) :
               lengthResult.allResults[j].confidence <= c

C18_HasNaN ==
    \E i \in 1..Len(lengthResult.allResults) : IsNaN(lengthResult.allResults[i].length)

\* n times the sum of the squared lengths, and the square of their sum: with
\* these, CV^2 = (C18_NQ - C18_S2) / C18_S2
C18_NQ ==
    LimbsMul(SumSquares(lengthResult.allResults, Len(lengthResult.allResults)),
             Len(lengthResult.allResults))
C18_S2 ==
    LimbsMulBig(Limbs(SumLengths(lengthResult.allResults, Len(lengthResult.allResults))),
                Limbs(SumLengths(lengthResult.allResults, Len(lengthResult.allResults))))

\* CV < 0.2, and CV > 0.5; a NaN length makes CV NaN and both false
C18_CVLow == ~C18_HasNaN /\ ~LimbsLeq(LimbsMul(C18_S2, 26), LimbsMul(C18_NQ, 25))
C18_CVHigh == ~C18_HasNaN /\ ~LimbsLeq(LimbsMul(C18_NQ, 4), LimbsMul(C18_S2, 5))

C18_Adjusted ==
    IF C18_CVLow THEN lengthResult.confidence = Min2(950, C18_OwnConfidence + 100)
    ELSE IF C18_CVHigh THEN lengthResult.confidence = Max2(100, C18_OwnConfidence - 200)
    ELSE lengthResult.confidence = C18_OwnConfidence

\* C18 as stated: the length and the name returned are those of the succeeding
\* estimator with the highest own confidence c; skipped estimators take no
\* part in the cross-validation; with CV the coefficient of variation of the
\* lengths of all succeeding estimators, the returned confidence is
\* min(0.95, c + 0.1) when CV < 0.2, max(0.1, c - 0.2) when CV > 0.5, and c
\* otherwise; length_confidence lies in [0, 1].
C18_CrossValidatedAlways ==
    (lengthResult # None /\ Len(lengthCall.meshes.list) > 0) =>
        /\ C18_Methods = C18_Succeeded
        /\ C18_BestSelected
        /\ C18_Adjusted
        /\ lengthResult.confidence \in 0..1000

\* C18 (amended): as stated when two or more estimators succeeded; when the
\* bounding box is the only succeeding estimator no cross-validation takes
\* place and the returned confidence is c itself.
C18_CrossValidation ==
    (lengthResult # None /\ Len(lengthCall.meshes.list) > 0) =>
        /\ C18_Methods = C18_Succeeded
        /\ C18_BestSelected
        /\ IF Len(lengthResult.allResults) > 1 THEN C18_Adjusted
           ELSE lengthResult.confidence = C18_OwnConfidence
        /\ lengthResult.confidence \in 0..1000

\* the bounding box (0.2) won over a skeleton of confidence 0.17 whose length
\* disagrees with it, and its confidence fell to the floor 0.1
C18_Witness ==
    /\ lengthResult # None
    /\ Len(lengthResult.allResults) = 2
    /\ lengthResult.method = "Bounding Box"
    /\ C18_CVHigh
    /\ lengthResult.confidence = 100

(***************************************************************************)
(* Voxel skeletonization (QuoteDisplay.tsx): computeDistanceTransform and  *)
(* extractSkeletonVoxels                                                   *)
(*                                                                         *)
(* A voxel grid is [dims, at]: dims = <<x, y, z>> lengths of the nested    *)
(* arrays, at[<<x, y, z>>] the boolean of the voxel, indices from 0.       *)
(* A distance field is a function of the same voxels; Infinity stands for  *)
(* the JavaScript Infinity (Infinity + 1 = Infinity).                      *)
(***************************************************************************)
Infinity == 1000000

Voxels(dims) == (0..(dims[1] - 1)) \X (0..(dims[2] - 1)) \X (0..(dims[3] - 1))

\* the k-th voxel (from 0) of `for x ... for y ... for z ...`
VoxelAt(dims, k) ==
    <<k \div (dims[2] * dims[3]), (k \div dims[3]) % dims[2], k % dims[3]>>

\* the 6-connected neighbours of (x, y, z) that lie inside the grid
Neighbors6(dims, v) ==
    {n \in {<<v[1] - 1, v[2], v[3]>>, <<v[1] + 1, v[2], v[3]>>,
            <<v[1], v[2] - 1, v[3]>>, <<v[1], v[2] + 1, v[3]>>,
            <<v[1], v[2], v[3] - 1>>, <<v[1], v[2], v[3] + 1>>} :
        /\ n[1] >= 0 /\ n[1] < dims[1]
        /\ n[2] >= 0 /\ n[2] < dims[2]
        /\ n[3] >= 0 /\ n[3] < dims[3]}

\* distanceField[nx][ny][nz] + 1
PlusOne(d) == IF d = Infinity THEN Infinity ELSE d + 1

MinOf(S) == CHOOSE m \in S : \A e \in S : m <= e

\* the body of the three nested loops for one voxel: st = [field, changed]
RelaxVoxel_Frozen(grid, st, v) == st

RelaxVoxel(grid, st, v) ==
    IF grid.at[v] THEN st
    ELSE LET minDist == MinOf({st.field[v]}
                              \cup {PlusOne(st.field[n]) : n \in Neighbors6(grid.dims, v)})
         IN  [field |-> [st.field EXCEPT ![v] = minDist],
              changed |-> st.changed \/ minDist < st.field[v]]

\* one pass of the three nested loops, from the k-th voxel on, in place
RECURSIVE SweepFrom(_, _, _)
SweepFrom(grid, st, k) ==
    IF k >= grid.dims[1] * grid.dims[2] * grid.dims[3] THEN st
    ELSE CHOOSE r \in {SweepFrom(grid, next, k + 1) :
                          next \in {RelaxVoxel(grid, st, VoxelAt(grid.dims, k))}} : TRUE

\* for (let iter = 0; iter < maxIterations && changed; iter++)
RECURSIVE Sweeps(_, _, _, _)
Sweeps(grid, field, changed, it) ==
    IF it < Max2(grid.dims[1], Max2(grid.dims[2], grid.dims[3])) /\ changed
    THEN CHOOSE r \in {Sweeps(grid, st.field, st.changed, it + 1) :
                          st \in {SweepFrom(grid, [field |-> field, changed |-> FALSE], 0)}} :
             TRUE
    ELSE [field |-> field, iter |-> it]

\* returns [field, iter]: the distance field and the number of sweeps made
computeDistanceTransform(grid) ==
    Sweeps(grid, [v \in Voxels(grid.dims) |-> IF grid.at[v] THEN 0 ELSE Infinity], TRUE, 0)

\* the 26 neighbours of an inner voxel
Neighbors26(v) ==
    {<<v[1] + dx, v[2] + dy, v[3] + dz>> : dx \in {-1, 0, 1}, dy \in {-1, 0, 1},
                                         dz \in {-1, 0, 1}} \ {v}

IsLocalMax_Strict(field, v) == \A n \in Neighbors26(v) : field[n] < field[v]

\* isLocalMax: no neighbour has neighborDist > currentDist
IsLocalMax(field, v) == \A n \in Neighbors26(v) : ~(field[n] > field[v])

\* the voxels pushed, each with its distance
extractSkeletonVoxels(dims, field) ==
    {[x |-> v[1], y |-> v[2], z |-> v[3], distance |-> field[v]] :
        v \in {w \in Voxels(dims) :
                  /\ w[1] >= 1 /\ w[1] < dims[1] - 1
                  /\ w[2] >= 1 /\ w[2] < dims[2] - 1
                  /\ w[3] >= 1 /\ w[3] < dims[3] - 1
                  /\ ~(field[w] < 2)
                  /\ IsLocalMax(field, w)}}

(***************************************************************************)
(* Inputs of the skeletonization specification                             *)
(***************************************************************************)
MaxSurfaceVoxels == 2

GridDims == {<<1, 1, 3>>, <<3, 3, 1>>, <<2, 2, 2>>, <<3, 3, 3>>}

\* the subsets of S of at most k elements
RECURSIVE SubsetsUpTo(_, _)
SubsetsUpTo(S, k) ==
    IF k = 0 THEN {{}}
    ELSE LET smaller == SubsetsUpTo(S, k - 1)
         IN  smaller \cup {m \cup {e} : m \in smaller, e \in S}

\* the grids of the given dimensions with at most MaxSurfaceVoxels marked voxels
GridsOf(dims) ==
    {[dims |-> dims, at |-> [v \in Voxels(dims) |-> v \in marked]] :
        marked \in SubsetsUpTo(Voxels(dims), MaxSurfaceVoxels)}

VoxelGrids == UNION {GridsOf(dims) : dims \in GridDims}

InitSkeleton ==
    /\ voxelGrid \in VoxelGrids
    /\ distanceField = None /\ iter = 0 /\ skeletonVoxels = None
    /\ IdleOutsideSkeleton

\* computeDistanceTransform(voxelGrid, bounds, resolution) is called and returns
ComputeDistanceTransform ==
    /\ distanceField = None
    /\ \E r \in {computeDistanceTransform(voxelGrid)} :
          /\ distanceField' = r.field
          /\ iter' = r.iter
    /\ UNCHANGED <<voxelGrid, skeletonVoxels, outsideSkeleton>>

\* extractSkeletonVoxels(distanceField, bounds, resolution) is called and returns
ExtractSkeletonVoxels ==
    /\ distanceField # None /\ skeletonVoxels = None
    /\ skeletonVoxels' = [voxels |-> extractSkeletonVoxels(voxelGrid.dims, distanceField)]
    /\ UNCHANGED <<voxelGrid, distanceField, iter, outsideSkeleton>>

NextSkeleton == ComputeDistanceTransform \/ ExtractSkeletonVoxels

SpecSkeleton == InitSkeleton /\ [][NextSkeleton]_vars

(***************************************************************************)
(* Claims about the skeletonization                                        *)
(***************************************************************************)
C21_Surface == {v \in Voxels(voxelGrid.dims) : voxelGrid.at[v]}

C21_Abs(x) == IF x < 0 THEN 0 - x ELSE x

\* the 6-connected grid distance of v to the nearest surface voxel
C21_GridDistance(v) ==
    MinOf({C21_Abs(v[1] - s[1]) + C21_Abs(v[2] - s[2]) + C21_Abs(v[3] - s[3]) :
              s \in C21_Surface})

\* C21: computeDistanceTransform makes at most max(dim_x, dim_y, dim_z) sweeps,
\* leaves every surface voxel at 0, and for a grid with a surface voxel returns
\* for every other voxel its exact 6-connected distance to the nearest surface
\* voxel, none left at +infinity.
C21_ExactDistance ==
    distanceField # None =>
        /\ iter <= Max2(voxelGrid.dims[1], Max2(voxelGrid.dims[2], voxelGrid.dims[3]))
        /\ \A v \in C21_Surface : distanceField[v] = 0
        /\ C21_Surface # {} =>
              \A v \in Voxels(voxelGrid.dims) \ C21_Surface :
                  /\ distanceField[v] # Infinity
                  /\ distanceField[v] = C21_GridDistance(v)

C22_Inner ==
    {v \in Voxels(voxelGrid.dims) :
        \A a \in 1..3 : v[a] >= 1 /\ v[a] <= voxelGrid.dims[a] - 2}

C22_Returned == {<<s.x, s.y, s.z>> : s \in skeletonVoxels.voxels}

\* C22: extractSkeletonVoxels returns exactly the inner voxels whose distance is
\* at least 2 and strictly greater than the distance of each of their 26
\* neighbours; a voxel that ties with a neighbour is not returned.
C22_StrictLocalMaxima ==
    skeletonVoxels # None =>
        C22_Returned =
            {v \in C22_Inner :
                /\ distanceField[v] >= 2
                /\ \A n \in Neighbors26(v) : distanceField[n] < distanceField[v]}

(***************************************************************************)
(* Centreline ordering (QuoteDisplay.tsx): orderSkeletonPoints             *)
(*                                                                         *)
(* A point is <<x, y, z>> in voxel steps (voxelsToPoints places the medial *)
(* points on a lattice); distances are in ticks of 1e-4 voxel step.        *)
(***************************************************************************)
distanceToSquared(p, q) ==
    (p[1] - q[1]) * (p[1] - q[1]) + (p[2] - q[2]) * (p[2] - q[2])
    + (p[3] - q[3]) * (p[3] - q[3])

\* the integer r in lo..hi with r * r <= n < (r + 1) * (r + 1)
RECURSIVE SqrtBetween(_, _, _)
SqrtBetween(n, lo, hi) ==
    IF lo >= hi THEN lo
    ELSE LET mid == (lo + hi + 1) \div 2
         IN  IF mid * mid <= n THEN SqrtBetween(n, mid, hi)
             ELSE SqrtBetween(n, lo, mid - 1)

\* p.distanceTo(q), in ticks (squared distances up to 21 voxel steps squared)
distanceTo(p, q) == SqrtBetween(distanceToSquared(p, q) * 100000000, 0, 46340)

\* the least distance of points[i] to another element (Infinity: none)
RECURSIVE MinDistFrom(_, _, _)
MinDistFrom(points, i, j) ==
    IF j > Len(points) THEN Infinity
    ELSE LET rest == MinDistFrom(points, i, j + 1)
         IN  IF i = j THEN rest
             ELSE LET dist == distanceTo(points[i], points[j])
                  IN  IF dist <= rest THEN dist ELSE rest

\* calculateAveragePointSpacing as the fraction totalDist / count, in ticks
RECURSIVE SpacingSum(_, _)
SpacingSum(points, i) ==
    IF i = 0 THEN [totalDist |-> 0, count |-> 0]
    ELSE LET before == SpacingSum(points, i - 1)
             minDist == MinDistFrom(points, i, 1)
         IN  IF minDist < Infinity
             THEN [totalDist |-> before.totalDist + minDist, count |-> before.count + 1]
             ELSE before

calculateAveragePointSpacing(points) ==
    IF Len(points) < 2 THEN [totalDist |-> 10000, count |-> 1]
    ELSE LET sum == SpacingSum(points, Min2(Len(points), 100))
         IN  IF sum.count > 0 THEN sum ELSE [totalDist |-> 10000, count |-> 1]

\* points[i] has at most one other point within maxConnectionDist = spacing * 2
FewNeighbors(points, i, spacing) ==
    Cardinality({j \in 1..Len(points) :
                    /\ j # i
                    /\ distanceTo(points[j], points[i]) * spacing.count
                           <= 2 * spacing.totalDist}) <= 1

\* the endpoints found by the first loop, as indices in array order
EndpointIndices(points) ==
    CHOOSE r \in {SelectSeq([i \in 1..Len(points) |-> i],
                            LAMBDA i : FewNeighbors(points, i, spacing)) :
                     spacing \in {calculateAveragePointSpacing(points)}} : TRUE

\* the fallback's double loop from the pair (i, j) on: best = [maxDist, i, j]
RECURSIVE FurthestFrom(_, _, _, _)
FurthestFrom(points, i, j, best) ==
    IF i > Len(points) THEN best
    ELSE IF j > Len(points) THEN FurthestFrom(points, i + 1, i + 2, best)
    ELSE LET dist == distanceTo(points[i], points[j])
         IN  FurthestFrom(points, i, j + 1,
                          IF dist > best.maxDist
                          THEN [maxDist |-> dist, endpoint1 |-> i, endpoint2 |-> j]
                          ELSE best)

\* the index of endpoints[0]
FirstEndpoint(points) ==
    LET endpoints == EndpointIndices(points)
    IN  IF Len(endpoints) < 2
        THEN LET furthest == FurthestFrom(points, 1, 2,
                                          [maxDist |-> 0, endpoint1 |-> 1, endpoint2 |-> 2])
             IN  (endpoints \o <<furthest.endpoint1, furthest.endpoint2>>)[1]
        ELSE endpoints[1]

\* remaining.splice(k, 1)
Splice(remaining, k) ==
    SubSeq(remaining, 1, k - 1) \o SubSeq(remaining, k + 1, Len(remaining))

NearestIndex_First(points, remaining, current) == 1

\* the position in `remaining` of the first point at the least distance to
\* `current` (all are indices into points)
NearestIndex(points, remaining, current) ==
    CHOOSE k \in 1..Len(remaining) :
        /\ \A l \in 1..Len(remaining) :
              distanceTo(points[current], points[remaining[k]])
                  <= distanceTo(points[current], points[remaining[l]])
        /\ \A l \in 1..(k - 1) :
              distanceTo(points[current], points[remaining[k]])
                  < distanceTo(points[current], points[remaining[l]])

\* while (remaining.length > 0) { ... }
RECURSIVE GreedyPath(_, _, _, _)
GreedyPath(points, ordered, remaining, current) ==
    IF Len(remaining) = 0 THEN ordered
    ELSE CHOOSE r \in {GreedyPath(points, Append(ordered, remaining[k]),
                                  Splice(remaining, k), remaining[k]) :
                          k \in {NearestIndex(points, remaining, current)}} : TRUE

orderSkeletonPoints(points) ==
    IF Len(points) < 2 THEN points
    ELSE LET first == FirstEndpoint(points)
             order == GreedyPath(points, <<first>>,
                                 Splice([i \in 1..Len(points) |-> i], first), first)
         IN  [k \in 1..Len(order) |-> points[order[k]]]

(***************************************************************************)
(* Inputs of the ordering specification                                    *)
(***************************************************************************)
MaxSkeletonPoints == 4

SkeletonLattice == (0..4) \X (0..1) \X (0..0)

\* arrays of up to n distinct lattice points
RECURSIVE PointArrays(_)
PointArrays(n) ==
    IF n = 0 THEN {<<>>}
    ELSE LET shorter == PointArrays(n - 1)
         IN  shorter \cup {Append(a, p) : a \in {b \in shorter : Len(b) = n - 1},
                                          p \in SkeletonLattice}

DistinctPointArrays ==
    {a \in PointArrays(MaxSkeletonPoints) :
        \A i, j \in 1..Len(a) : i # j => a[i] # a[j]}

InitOrder ==
    /\ skeletonPoints \in {[points |-> a] : a \in DistinctPointArrays}
    /\ orderedCenterline = None
    /\ IdleOutsideOrder

\* orderSkeletonPoints(skeletonPoints) is called and returns
OrderSkeletonPoints ==
    /\ orderedCenterline = None
    /\ orderedCenterline' = [points |-> orderSkeletonPoints(skeletonPoints.points)]
    /\ UNCHANGED <<skeletonPoints, outsideOrder>>

NextOrder == OrderSkeletonPoints

SpecOrder == InitOrder /\ [][NextOrder]_vars

(***************************************************************************)
(* Claims about orderSkeletonPoints                                        *)
(***************************************************************************)
C23_In == skeletonPoints.points
C23_Out == orderedCenterline.points

\* the sum of the nearest-neighbour distances of the points
C23_NearestSum ==
    LET Sum[i \in 0..Len(C23_In)] ==
            IF i = 0 THEN 0
            ELSE Sum[i - 1]
                 + MinOf({distanceTo(C23_In[i], C23_In[j]) :
                             j \in (1..Len(C23_In)) \ {i}})
    IN  Sum[Len(C23_In)]

\* p has at most one other point within twice the mean nearest-neighbour
\* spacing, the mean being sum / Len(C23_In)
C23_IsEndpointFor(p, sum) ==
    Cardinality({j \in 1..Len(C23_In) :
                    /\ C23_In[j] # p
                    /\ distanceTo(C23_In[j], p) * Len(C23_In) <= 2 * sum}) <= 1

C23_IsEndpoint(p) == \E sum \in {C23_NearestSum} : C23_IsEndpointFor(p, sum)

C23_Endpoints ==
    CHOOSE e \in {{i \in 1..Len(C23_In) : C23_IsEndpointFor(C23_In[i], sum)} :
                     sum \in {C23_NearestSum}} : TRUE

\* p is one of two points that are farthest apart
C23_IsFarthest(p) ==
    \E j \in 1..Len(C23_In) :
        \A k, l \in 1..Len(C23_In) :
            distanceToSquared(p, C23_In[j]) >= distanceToSquared(C23_In[k], C23_In[l])

\* C23: orderSkeletonPoints returns every medial point exactly once; the first
\* point is an endpoint (at most one other point within twice the mean
\* nearest-neighbour spacing) or, when fewer than two endpoints exist, one of
\* the two farthest-apart points; every following point is a nearest
\* not-yet-visited point to its predecessor.
C23_GreedyPermutation ==
    orderedCenterline # None =>
        /\ Len(C23_Out) = Len(C23_In)
        /\ \A i \in 1..Len(C23_In) : \E k \in 1..Len(C23_Out) : C23_Out[k] = C23_In[i]
        /\ \A k, l \in 1..Len(C23_Out) : k # l => C23_Out[k] # C23_Out[l]
        /\ Len(C23_In) >= 2 =>
              \/ C23_IsEndpoint(C23_Out[1])
              \/ Cardinality(C23_Endpoints) < 2 /\ C23_IsFarthest(C23_Out[1])
        /\ \A k \in 2..Len(C23_Out) :
              \A l \in k..Len(C23_Out) :
                  distanceToSquared(C23_Out[k - 1], C23_Out[k])
                      <= distanceToSquared(C23_Out[k - 1], C23_Out[l])

\* four points in two separate pairs, all of them endpoints: the path starts at
\* the first point of the array, which is not one of the farthest-apart points,
\* and visits the points in another order than the array's
C23_Witness ==
    /\ orderedCenterline # None
    /\ Len(C23_In) = 4
    /\ Cardinality(C23_Endpoints) = 4
    /\ C23_Out[1] = C23_In[1]
    /\ ~C23_IsFarthest(C23_Out[1])
    /\ C23_Out # C23_In

(***************************************************************************)
(* B-spline arc length (QuoteDisplay.tsx): CurveIntegrator.bSplineArcLength *)
(*                                                                         *)
(* A knot is held as its numerator over n - degree, the parameter t of the *)
(* i-th sample as i over samples; array indices are the code's, from 0.    *)
(***************************************************************************)
degree == 3
samples == 100

\* knotVector[k]
Knot(kv, k) == kv[k + 1]

createUniformKnotVector(n, deg) ==
    [k \in 1..(n + deg + 1) |->
        IF k - 1 <= deg THEN 0
        ELSE IF k - 1 < (n + deg + 1) - deg THEN k - 1 - deg
        ELSE n - deg]

\* knotVector[k] <= t for t = i / samples
KnotAtMost(kv, k, n, i) == Knot(kv, k) * samples <= i * (n - degree)

\* while (span < n && knotVector[span + 1] <= t) span++
RECURSIVE FindSpan(_, _, _, _)
FindSpan(kv, n, i, span) ==
    IF span < n /\ KnotAtMost(kv, span + 1, n, i)
    THEN FindSpan(kv, n, i, span + 1)
    ELSE span

\* the denominators right[r + 1] + left[j - r] of computeBasisFunctions,
\* as numerators over n - degree: knotVector[span + r + 1] - knotVector[span + 1 - j + r]
Denominators(kv, span) ==
    [jr \in {<<j, r>> \in (1..degree) \X (0..(degree - 1)) : r < j} |->
        Knot(kv, span + jr[2] + 1) - Knot(kv, span + 1 - jr[1] + jr[2])]

\* evaluateBSpline(controlPoints, degree, knotVector, i / samples):
\*   span          the knot span found
\*   reads         the indices span - degree + i at which controlPoints is read
\*   denominators  the divisors of computeBasisFunctions
\*   isNaN         a basis function was computed as x / 0
evaluateBSpline(n, kv, i) ==
    CHOOSE r \in {[i |-> i, span |-> span,
                   reads |-> {span - degree + k : k \in 0..degree},
                   denominators |-> Denominators(kv, span),
                   isNaN |-> \E jr \in DOMAIN Denominators(kv, span) :
                                Denominators(kv, span)[jr] = 0] :
                     span \in {FindSpan(kv, n, i, degree)}} : TRUE

(***************************************************************************)
(* Inputs of the B-spline specification                                    *)
(***************************************************************************)
MaxControlPoints == 7

InitSpline ==
    /\ controlPoints \in (degree + 1)..MaxControlPoints
    /\ knotVector = <<>> /\ sampleIndex = 0 /\ evaluation = None
    /\ IdleOutsideSpline

\* const knotVector = this.createUniformKnotVector(n, degree)
CreateKnotVector ==
    /\ knotVector = <<>>
    /\ knotVector' = createUniformKnotVector(controlPoints, degree)
    /\ UNCHANGED <<controlPoints, sampleIndex, evaluation, outsideSpline>>

\* one pass of for (let i = 0; i <= samples; i++)
EvaluateSample ==
    /\ knotVector # <<>>
    /\ sampleIndex <= samples
    /\ evaluation' = evaluateBSpline(controlPoints, knotVector, sampleIndex)
    /\ sampleIndex' = sampleIndex + 1
    /\ UNCHANGED <<controlPoints, knotVector, outsideSpline>>

NextSpline == CreateKnotVector \/ EvaluateSample

SpecSpline == InitSpline /\ [][NextSpline]_vars

(***************************************************************************)
(* Claims about the B-spline evaluation                                    *)
(***************************************************************************)
\* C24: for n >= 4 control points the knot vector has n + 4 non-decreasing knots,
\* the first four 0 and the last four 1, and for every sample t = i/100,
\* i = 0..100, evaluateBSpline finds a span with 3 <= span <= n - 1, reads only
\* control points that exist and divides by no zero.
C24_SpanInRange ==
    /\ knotVector # <<>> =>
          /\ Len(knotVector) = controlPoints + 4
          /\ \A k \in 1..(Len(knotVector) - 1) : knotVector[k] <= knotVector[k + 1]
          /\ \A k \in 1..4 : knotVector[k] = 0
          /\ \A k \in (controlPoints + 1)..(controlPoints + 4) :
                knotVector[k] = controlPoints - 3
    /\ evaluation # None =>
          /\ 3 <= evaluation.span /\ evaluation.span <= controlPoints - 1
          /\ \A c \in evaluation.reads : 0 <= c /\ c <= controlPoints - 1
          /\ \A jr \in DOMAIN evaluation.denominators : evaluation.denominators[jr] # 0

(***************************************************************************)
(* CADViewer (part_000): the file effect and handleFileLoad                *)
(*                                                                         *)
(* A file is its name (a string of one-character strings, as above); the   *)
(* geometry parseCADFile resolves with, and its analysis, are identified   *)
(* by the file they were parsed from.                                      *)
(***************************************************************************)
ViewerFiles ==
    {<<"a", ".", "s", "t", "e", "p">>, <<"b", ".", "d", "x", "f">>,
     <<"c", ".", "s", "t", "l">>}

ParsedOf(f) == [file |-> f, analysis |-> [file |-> f]]

\* the invocations of handleFileLoad that wait for parseCADFile
Pending == {k \in 1..Len(loads) : loads[k].pc = "parsing"}

MaxFileChanges == 3

InitViewer ==
    /\ fileProp = None /\ loads = <<>> /\ loading = FALSE /\ viewerError = ""
    /\ parsedGeometry = None /\ notified = None
    /\ IdleOutsideViewer

\* the parent renders CADViewer with another file: the effect calls
\* handleFileLoad(file), which runs up to its await
FileChanged(f) ==
    /\ Len(loads) < MaxFileChanges
    /\ fileProp # [name |-> f]
    /\ fileProp' = [name |-> f]
    /\ parsedGeometry' = None
    /\ IF isSupportedFile(f)
       THEN /\ loads' = Append(loads, [file |-> f, pc |-> "parsing"])
            /\ loading' = TRUE
            /\ viewerError' = ""
       ELSE /\ loads' = Append(loads, [file |-> f, pc |-> "failed"])
            /\ loading' = FALSE
            /\ viewerError' = "Unsupported file format"
    /\ UNCHANGED <<notified, outsideViewer>>

\* parseCADFile of invocation k resolves: the rest of the try block and finally
ParseResolved(k) ==
    /\ k \in Pending
    /\ loads' = [loads EXCEPT ![k].pc = "done"]
    /\ parsedGeometry' = ParsedOf(loads[k].file)
    /\ notified' = ParsedOf(loads[k].file).analysis
    /\ loading' = FALSE
    /\ UNCHANGED <<fileProp, viewerError, outsideViewer>>

\* parseCADFile of invocation k rejects: catch and finally
ParseRejected(k) ==
    /\ k \in Pending
    /\ loads' = [loads EXCEPT ![k].pc = "failed"]
    /\ viewerError' = "Failed to load CAD file"
    /\ loading' = FALSE
    /\ UNCHANGED <<fileProp, parsedGeometry, notified, outsideViewer>>

NextViewer ==
    \/ \E f \in ViewerFiles : FileChanged(f)
    \/ \E k \in 1..MaxFileChanges : ParseResolved(k)
    \/ \E k \in 1..MaxFileChanges : ParseRejected(k)

SpecViewer == InitViewer /\ [][NextViewer]_vars

(***************************************************************************)
(* Claims about CADViewer                                                  *)
(***************************************************************************)
\* two files were supplied and both parses resolved, in either order (the runs
\* in which the second file was supplied while the first parse was in flight
\* are among them)
C26_Overlapped ==
    \E k \in 1..Len(loads) : \E l \in (k + 1)..Len(loads) :
        loads[k].pc = "done" /\ loads[l].pc = "done"

\* C26: when the file prop changed while an earlier parse was in flight, then
\* once all parses have finished parsedGeometry and the analysis last passed
\* to onParsingComplete belong to the file supplied last, whatever the order
\* in which the parses completed.
C26_LatestFileWins ==
    (Pending = {} /\ C26_Overlapped /\ loads[Len(loads)].pc = "done") =>
        /\ parsedGeometry # None /\ parsedGeometry.file = fileProp.name
        /\ notified # None /\ notified.file = fileProp.name

(***************************************************************************)
(* Configuration wizard (orders/page.tsx) with FileUploadStep.tsx, the     *)
(* CADViewer it mounts and MaterialSelectionModal (part_006)               *)
(*                                                                         *)
(* A File object is the number of the drop that made it (0: null).  The    *)
(* analysis parseCADFile resolves with is identified by its file; lengths  *)
(* are in tenths of a millimetre.  `quote` and `quoteInputs` are the       *)
(* wizard's quote state and the inputs handed to calculateQuote for it.    *)
(***************************************************************************)
STEPS == <<"upload", "quote">>

\* initialState.fileUpload, and emptyData of removeFile
EmptyUpload == [file |-> 0, isValid |-> FALSE, analysis |-> None]

\* newUploadData of handleFileUpload
UploadOf(f) == [file |-> f, isValid |-> TRUE, analysis |-> None]

\* the analysis of the f-th file: f times 48 inches, f bends, 2 cuts
AnalysisOfFile(f) ==
    [file |-> f, totalLength |-> 12192 * f, estimatedBends |-> f, estimatedCuts |-> 2]

\* lengthMeasurements.lengthInches: lengthMm / 25.4 (whole inches for the
\* lengths of the model)
lengthInches(analysisOfFile) == analysisOfFile.totalLength \div 254

\* the wizard renders QuoteDisplay instead of the step page
QuoteShown(step, q, selection, fa) ==
    STEPS[step + 1] = "quote" /\ q # None /\ selection # None /\ fa # None

\* FileUploadStep is rendered
UploadShown(step, q, selection, fa) ==
    ~QuoteShown(step, q, selection, fa) /\ STEPS[step + 1] = "upload"

\* the effect of FileUploadStep on [data, uploadData.file]: the new uploadData
PropsEffect(data, local) ==
    IF local.isValid /\ local.file # 0 /\ data.file = 0 THEN local
    ELSE IF data.file # local.file THEN data
    ELSE local

\* what rendering does to FileUploadStep and CADViewer once the wizard holds
\* `data` in state.fileUpload and FileUploadStep holds `local`: the new
\* uploadData, the callback of the mounted CADViewer and the loads started
Rendered(shown, data, local) ==
    IF ~shown
    THEN [uploadData |-> None, viewerCallback |-> None, viewerLoads |-> viewerLoads]
    ELSE LET synced == PropsEffect(data, local)
         IN  IF ~(synced.isValid /\ synced.file # 0)
             THEN [uploadData |-> synced, viewerCallback |-> None,
                   viewerLoads |-> viewerLoads]
             ELSE IF viewerCallback = None
             THEN [uploadData |-> synced, viewerCallback |-> synced,
                   viewerLoads |-> Append(viewerLoads,
                                          [file |-> synced.file, callback |-> synced,
                                           pc |-> "parsing"])]
             ELSE IF synced.file # uploadData.file
             THEN [uploadData |-> synced, viewerCallback |-> viewerCallback,
                   viewerLoads |-> Append(viewerLoads,
                                          [file |-> synced.file,
                                           callback |-> viewerCallback,
                                           pc |-> "parsing"])]
             ELSE [uploadData |-> synced, viewerCallback |-> viewerCallback,
                   viewerLoads |-> viewerLoads]

(***************************************************************************)
(* Inputs of the wizard specification                                      *)
(***************************************************************************)
MaxUploads == 2
MaxLoads == 4

\* material.gauges[1] of the MATERIALS of the modal
MiddleGauge(material) ==
    IF material.id = "aluminum" THEN "14 AWG (0.064\")" ELSE "14 AWG (0.078\")"

\* the quantities typed into the modal: parseInt(e.target.value) || 1
ModalQuantities == {-1, 1, 12}

modalVars == <<selectedMaterial, modalQuantity, selectedGauge>>

\* canConfirm of MaterialSelectionModal
canConfirm == selectedMaterial # None /\ selectedGauge # "" /\ modalQuantity > 0

\* the modal's state when it is mounted anew
ModalReset ==
    /\ selectedMaterial' = None /\ modalQuantity' = 1 /\ selectedGauge' = ""

InitWizard ==
    /\ currentStep = 0 /\ fileUpload = EmptyUpload /\ showMaterialModal = FALSE
    /\ materialSelection = None /\ fileAnalysis = None
    /\ selectedMaterial = None /\ modalQuantity = 1 /\ selectedGauge = ""
    /\ quoteInputs = None /\ quote = None
    /\ uploadData = EmptyUpload /\ viewerCallback = None /\ viewerLoads = <<>>
    /\ uploaded = 0
    /\ IdleOutsideWizard

\* the user drops a valid file on the dropzone: handleFileUpload, then
\* handleStepComplete (the memoized handleFileUpload holds fileAnalysis = null)
DropFile ==
    /\ UploadShown(currentStep, quote, materialSelection, fileAnalysis)
    /\ ~showMaterialModal
    /\ ~uploadData.isValid
    /\ uploaded < MaxUploads
    /\ Len(viewerLoads) < MaxLoads
    /\ uploaded' = uploaded + 1
    /\ fileUpload' = UploadOf(uploaded + 1)
    /\ \E r \in {Rendered(TRUE, UploadOf(uploaded + 1), UploadOf(uploaded + 1))} :
          /\ uploadData' = r.uploadData
          /\ viewerCallback' = r.viewerCallback
          /\ viewerLoads' = r.viewerLoads
    /\ UNCHANGED <<currentStep, showMaterialModal, materialSelection, fileAnalysis,
                   modalVars,
                   quoteVars, outsideWizard>>

\* the user clicks X: removeFile, then handleStepComplete(emptyData)
RemoveFile ==
    /\ UploadShown(currentStep, quote, materialSelection, fileAnalysis)
    /\ ~showMaterialModal
    /\ uploadData.isValid
    /\ fileUpload' = EmptyUpload
    /\ \E r \in {Rendered(TRUE, EmptyUpload, EmptyUpload)} :
          /\ uploadData' = r.uploadData
          /\ viewerCallback' = r.viewerCallback
          /\ viewerLoads' = r.viewerLoads
    /\ UNCHANGED <<currentStep, showMaterialModal, materialSelection, fileAnalysis,
                   uploaded, modalVars,
                   quoteVars, outsideWizard>>

\* parseCADFile of load k resolves: onParsingComplete(analysis), that is the
\* captured handleParsingComplete and the handleStepComplete it holds
LoadResolved(k) ==
    /\ k \in 1..Len(viewerLoads)
    /\ viewerLoads[k].pc = "parsing"
    /\ Len(viewerLoads) < MaxLoads
    /\ \E completeData \in {[viewerLoads[k].callback EXCEPT
                                !.analysis = AnalysisOfFile(viewerLoads[k].file)]} :
          /\ fileUpload' = completeData
          /\ fileAnalysis' = completeData.analysis
          /\ \E r \in {Rendered(UploadShown(currentStep, quote, materialSelection,
                                            completeData.analysis),
                                completeData, uploadData)} :
                /\ uploadData' = r.uploadData
                /\ viewerCallback' = r.viewerCallback
                /\ viewerLoads' = [r.viewerLoads EXCEPT ![k].pc = "done"]
    /\ UNCHANGED <<currentStep, showMaterialModal, materialSelection, uploaded,
                   modalVars,
                   quoteVars, outsideWizard>>

\* parseCADFile of load k rejects: CADViewer shows the error, nobody is told
LoadRejected(k) ==
    /\ k \in 1..Len(viewerLoads)
    /\ viewerLoads[k].pc = "parsing"
    /\ viewerLoads' = [viewerLoads EXCEPT ![k].pc = "failed"]
    /\ UNCHANGED <<currentStep, fileUpload, showMaterialModal, materialSelection,
                   fileAnalysis, uploadData, viewerCallback, uploaded,
                   modalVars,
                   quoteVars, outsideWizard>>

\* nextStep and prevStep, as [showMaterialModal, currentStep] after the call
nextStep ==
    IF STEPS[currentStep + 1] = "upload" /\ fileUpload.isValid
    THEN [showMaterialModal |-> TRUE, currentStep |-> currentStep]
    ELSE IF currentStep < Len(STEPS) - 1
    THEN [showMaterialModal |-> showMaterialModal, currentStep |-> currentStep + 1]
    ELSE [showMaterialModal |-> showMaterialModal, currentStep |-> currentStep]

prevStep ==
    IF currentStep > 0
    THEN [showMaterialModal |-> showMaterialModal, currentStep |-> currentStep - 1]
    ELSE [showMaterialModal |-> showMaterialModal, currentStep |-> currentStep]

\* the user clicks a navigation button of the step page that is not disabled:
\* Previous (disabled on the first step) or Continue (disabled without a
\* valid file)
ClickNavigation ==
    /\ ~QuoteShown(currentStep, quote, materialSelection, fileAnalysis)
    /\ ~showMaterialModal
    /\ \E button \in {"Previous", "Continue"} :
          /\ button = "Previous" => currentStep # 0
          /\ button = "Continue" => fileUpload.isValid
          /\ \E r \in {IF button = "Previous" THEN prevStep ELSE nextStep} :
                /\ showMaterialModal' = r.showMaterialModal
                /\ currentStep' = r.currentStep
    /\ UNCHANGED <<fileUpload, materialSelection, fileAnalysis, uploadData,
                   viewerCallback, viewerLoads, uploaded, modalVars,
                   quoteVars, outsideWizard>>

\* the user cancels the modal
CloseModal ==
    /\ ~QuoteShown(currentStep, quote, materialSelection, fileAnalysis)
    /\ showMaterialModal
    /\ showMaterialModal' = FALSE
    /\ UNCHANGED <<currentStep, fileUpload, materialSelection, fileAnalysis,
                   uploadData, viewerCallback, viewerLoads, uploaded,
                   modalVars,
                   quoteVars, outsideWizard>>

\* the user picks a material card in the modal: handleMaterialSelect
SelectMaterial(material) ==
    /\ ~QuoteShown(currentStep, quote, materialSelection, fileAnalysis)
    /\ showMaterialModal
    /\ selectedMaterial' = material
    /\ selectedGauge' = MiddleGauge(material)
    /\ UNCHANGED <<currentStep, fileUpload, showMaterialModal, materialSelection,
                   fileAnalysis, modalQuantity, uploadData, viewerCallback,
                   viewerLoads, uploaded, quoteVars, outsideWizard>>

\* the user types a quantity in the modal
SetQuantity(q) ==
    /\ ~QuoteShown(currentStep, quote, materialSelection, fileAnalysis)
    /\ showMaterialModal
    /\ modalQuantity' = q
    /\ UNCHANGED <<currentStep, fileUpload, showMaterialModal, materialSelection,
                   fileAnalysis, selectedMaterial, selectedGauge, uploadData,
                   viewerCallback, viewerLoads, uploaded, quoteVars, outsideWizard>>

\* handleMaterialSelection(selection): the inputs handed to calculateQuote
\* (None: no quote is made) and the step afterwards
handleMaterialSelection(selection) ==
    IF fileAnalysis # None
    THEN [quoteInputs |-> [material |-> selection.material,
                           quantity |-> selection.quantity,
                           gauge |-> selection.gauge,
                           length |-> lengthInches(fileAnalysis),
                           bends |-> fileAnalysis.estimatedBends,
                           cuts |-> fileAnalysis.estimatedCuts],
          currentStep |-> 1]
    ELSE [quoteInputs |-> None, currentStep |-> currentStep]

\* the user presses Confirm in the modal (enabled by canConfirm):
\* handleConfirm, that is handleMaterialSelection and onClose; once the
\* quote page is rendered the step page and the modal are unmounted
ConfirmMaterial ==
    /\ ~QuoteShown(currentStep, quote, materialSelection, fileAnalysis)
    /\ showMaterialModal
    /\ canConfirm
    /\ \E selection \in {[material |-> selectedMaterial, quantity |-> modalQuantity,
                          gauge |-> selectedGauge]} :
       \E r \in {handleMaterialSelection(selection)} :
          /\ materialSelection' = selection
          /\ showMaterialModal' = FALSE
          /\ currentStep' = r.currentStep
          /\ IF r.quoteInputs # None
             THEN /\ quoteInputs' = r.quoteInputs
                  /\ quote' = calculateQuote(r.quoteInputs)
                  /\ ModalReset
             ELSE UNCHANGED <<quoteVars, modalVars>>
          /\ \E v \in {Rendered(r.quoteInputs = None, fileUpload, uploadData)} :
                /\ uploadData' = v.uploadData
                /\ viewerCallback' = v.viewerCallback
                /\ viewerLoads' = v.viewerLoads
    /\ UNCHANGED <<fileUpload, fileAnalysis, uploaded, outsideWizard>>

NextWizard ==
    \/ DropFile
    \/ RemoveFile
    \/ \E k \in 1..MaxLoads : LoadResolved(k)
    \/ \E k \in 1..MaxLoads : LoadRejected(k)
    \/ ClickNavigation
    \/ CloseModal
    \/ \E material \in Materials : SelectMaterial(material)
    \/ \E q \in ModalQuantities : SetQuantity(q)
    \/ ConfirmMaterial

SpecWizard == InitWizard /\ [][NextWizard]_vars

(***************************************************************************)
(* Claims about the configuration wizard                                   *)
(***************************************************************************)
\* C25: the analysis from which a quote is computed is the analysis of the file
\* held in fileUpload at that moment; after a file was removed or replaced no
\* quote is computed from the earlier file's analysis.
C25_QuoteFromCurrentFile ==
    [][(ConfirmMaterial /\ quote' # None) =>
           /\ fileUpload.file # 0
           /\ fileAnalysis.file = fileUpload.file]_vars

\* C30: currentStep is always 0 or 1, and in every state with currentStep = 1
\* quote, materialSelection and fileAnalysis are non-null, the selection has a
\* material, a gauge and a quantity above 0, and the quote is the one computed
\* with length = fileAnalysis length in mm / 25.4 and fileAnalysis's bends and
\* cuts.
C30_StepInRange == currentStep \in {0, 1}

C30_QuoteStepComplete ==
    currentStep = 1 =>
        /\ quote # None /\ materialSelection # None /\ fileAnalysis # None
        /\ materialSelection.material \in Materials
        /\ materialSelection.gauge # ""
        /\ materialSelection.quantity > 0

C30_QuoteOfAnalysis ==
    currentStep = 1 =>
        /\ quoteInputs.length * 254 = fileAnalysis.totalLength
        /\ quoteInputs.bends = fileAnalysis.estimatedBends
        /\ quoteInputs.cuts = fileAnalysis.estimatedCuts
        /\ quote = calculateQuote(quoteInputs)

C30_QuoteStep ==
    C30_StepInRange /\ C30_QuoteStepComplete /\ C30_QuoteOfAnalysis

(***************************************************************************)
(* User store (contexts/user-context.tsx) with the pages that call it:     *)
(* QuoteDisplay.handleOrderAction and the effects of DashboardPage         *)
(* (part_003)                                                              *)
(*                                                                         *)
(* An order record is [id, action]; ids count the records created, and     *)
(* record 0 is an order stored by an earlier visit.  Of UserStats only     *)
(* totalOrders is kept, and of recentActivity its length.                  *)
(***************************************************************************)
initialState ==
    [user |-> None, isLoading |-> TRUE, isAuthenticated |-> FALSE, stats |-> None,
     recentActivity |-> 0, orders |-> <<>>, error |-> None]

\* the length of [activity, ...recentActivity].slice(0, 20)
Slice20(length) == IF length > 20 THEN 20 ELSE length

userReducer(state, action) ==
    CASE action.type = "SET_LOADING" -> [state EXCEPT !.isLoading = action.payload]
      [] action.type \in {"LOGIN_SUCCESS", "REGISTER_SUCCESS"} ->
            [state EXCEPT !.user = action.payload, !.isAuthenticated = TRUE,
                          !.isLoading = FALSE, !.error = None]
      [] action.type \in {"LOGIN_FAILURE", "REGISTER_FAILURE"} ->
            [state EXCEPT !.user = None, !.isAuthenticated = FALSE,
                          !.isLoading = FALSE, !.error = action.payload,
                          !.orders = <<>>]
      [] action.type = "LOGOUT" -> [initialState EXCEPT !.isLoading = FALSE]
      [] action.type = "SET_STATS" -> [state EXCEPT !.stats = action.payload]
      [] action.type = "SET_ACTIVITY" -> [state EXCEPT !.recentActivity = action.payload]
      [] action.type = "SET_ORDERS" -> [state EXCEPT !.orders = action.payload]
      [] action.type = "ADD_ORDER" ->
            [state EXCEPT !.orders = <<action.payload>> \o state.orders]
      [] action.type = "ADD_ACTIVITY" ->
            [state EXCEPT !.recentActivity = Slice20(1 + state.recentActivity)]
      [] action.type = "CLEAR_ERROR" -> [state EXCEPT !.error = None]
      [] OTHER -> state

\* the state after dispatching the actions of a sequence in order
RECURSIVE Dispatch(_, _)
Dispatch(state, actions) ==
    IF actions = <<>> THEN state
    ELSE Dispatch(userReducer(state, Head(actions)), Tail(actions))

\* mockApi: the demo user, the id Date.now() gives a registered user, and
\* the stats and activity of getStats and getRecentActivity
DemoUser == [id |-> "1"]
RegisteredUser == [id |-> "2"]
UserIds == {DemoUser, RegisteredUser}
mockStats == [totalOrders |-> 18]
mockActivity == 3

\* loadOrdersFromStorage(userId)
loadOrdersFromStorage(userId) == storedOrders[userId]

\* createOrderRecord(payload, action), for the id crypto.randomUUID() gives
createOrderRecord(id, action) == [id |-> id, action |-> action]

\* handleOrderCreation with the reducer's ADD_ORDER in place of SET_ORDERS
handleOrderCreation_AddOrder(closure, action, id, storage) ==
    IF closure.user = None
    THEN [result |-> None, dispatched |-> <<>>, persisted |-> storage]
    ELSE LET newOrder == createOrderRecord(id, action)
             totalOrders == (IF closure.stats = None THEN 0
                             ELSE closure.stats.totalOrders) + 1
         IN  [result |-> newOrder,
              dispatched |->
                  <<[type |-> "ADD_ORDER", payload |-> newOrder],
                    [type |-> "ADD_ACTIVITY", payload |-> newOrder.id]>>
                  \o (IF action = "submit"
                      THEN <<[type |-> "SET_STATS",
                              payload |-> [totalOrders |-> totalOrders]]>>
                      ELSE <<>>),
              persisted |-> [storage EXCEPT ![closure.user] =
                                                <<newOrder>> \o storage[closure.user]]]

\* handleOrderCreation(payload, action) called through the submitOrder or
\* saveOrderForLater of a render whose closures hold `closure`, with
\* localStorage holding `storage`: the record returned, the actions dispatched
\* and localStorage afterwards
handleOrderCreation(closure, action, id, storage) ==
    IF closure.user = None
    THEN [result |-> None, dispatched |-> <<>>, persisted |-> storage]
    ELSE LET newOrder == createOrderRecord(id, action)
             updatedOrders == <<newOrder>> \o closure.orders
             totalOrders == (IF closure.stats = None THEN 0
                             ELSE closure.stats.totalOrders) + 1
         IN  [result |-> newOrder,
              dispatched |->
                  <<[type |-> "SET_ORDERS", payload |-> updatedOrders],
                    [type |-> "ADD_ACTIVITY", payload |-> newOrder.id]>>
                  \o (IF action = "submit"
                      THEN <<[type |-> "SET_STATS",
                              payload |-> [totalOrders |-> totalOrders]]>>
                      ELSE <<>>),
              persisted |-> [storage EXCEPT ![closure.user] = updatedOrders]]

\* what the functions and pages of a render read of the state it rendered
Closure(state) ==
    [user |-> state.user, isLoading |-> state.isLoading,
     isAuthenticated |-> state.isAuthenticated, stats |-> state.stats,
     orders |-> state.orders]

\* a sequence without its k-th element
Remove(seq, k) == SubSeq(seq, 1, k - 1) \o SubSeq(seq, k + 1, Len(seq))

\* renderPending after a dispatch: a page that has not been mounted yet stays
\* to be mounted
Scheduled == IF renderPending = "mount" THEN "mount" ELSE "update"

(***************************************************************************)
(* Inputs of the user-store specification                                  *)
(***************************************************************************)
MaxOrders == 2
MaxAuthCalls == 1

Pages == {"quote", "login", "register", "dashboard"}
OrderActions == {"submit", "save"}

\* what an earlier visit can have left in the browser's storage
PreviousOrder == [id |-> 0, action |-> "submit"]
Malformed == [action |-> "malformed"]

InitUser ==
    /\ userState = initialState /\ rendered = Closure(initialState)
    /\ renderPending = "none" /\ providerMounted = FALSE
    /\ route = "quote"
    /\ storedUser \in {None, DemoUser}
    /\ storedOrders = [u \in UserIds |-> IF u = DemoUser THEN <<PreviousOrder>> ELSE <<>>]
    /\ pendingOrder \in {None, Malformed}
    /\ flash = None /\ feedback = None
    /\ authTasks = <<>> /\ authCalls = 0 /\ processing = 0 /\ created = 0
    /\ fromPending = {}
    /\ IdleOutsideUser

(***************************************************************************)
(* Every step but PendingProcessed waits for processing = 0: the rest of a *)
(* processPendingOrder whose await is on a settled promise is a microtask, *)
(* and microtasks run before any other event, timer or render.             *)
(***************************************************************************)

\* the mount effect of UserProvider
MountProvider ==
    /\ ~providerMounted
    /\ providerMounted' = TRUE
    /\ userState' =
          IF storedUser # None
          THEN Dispatch(userState,
                        <<[type |-> "LOGIN_SUCCESS", payload |-> storedUser],
                          [type |-> "SET_ORDERS",
                           payload |-> loadOrdersFromStorage(storedUser)]>>)
          ELSE Dispatch(userState, <<[type |-> "SET_LOADING", payload |-> FALSE]>>)
    /\ renderPending' = "mount"
    /\ UNCHANGED <<rendered, route, storedUser, storedOrders, pendingOrder, flash,
                   feedback, authTasks, authCalls, processing, created, fromPending,
                   outsideUser>>

\* login(credentials) up to its first await
Login(valid) ==
    /\ providerMounted /\ processing = 0
    /\ route = "login" /\ renderPending # "mount"
    /\ authCalls < MaxAuthCalls
    /\ authCalls' = authCalls + 1
    /\ userState' = Dispatch(userState, <<[type |-> "SET_LOADING", payload |-> TRUE],
                                          [type |-> "CLEAR_ERROR"]>>)
    /\ authTasks' = Append(authTasks, [kind |-> "login", valid |-> valid, pc |-> "api"])
    /\ renderPending' = "update"
    /\ UNCHANGED <<rendered, providerMounted, route, storedUser, storedOrders,
                   pendingOrder, flash, feedback, processing, created, fromPending,
                   outsideUser>>

\* mockApi.login of call k has answered
LoginResponded(k) ==
    /\ processing = 0
    /\ k \in 1..Len(authTasks)
    /\ authTasks[k].kind = "login" /\ authTasks[k].pc = "api"
    /\ IF authTasks[k].valid
       THEN /\ storedUser' = DemoUser
            /\ userState' = Dispatch(userState, <<[type |-> "LOGIN_SUCCESS",
                                                   payload |-> DemoUser]>>)
            /\ authTasks' = [authTasks EXCEPT ![k].pc = "fetch"]
       ELSE /\ storedUser' = storedUser
            /\ userState' = Dispatch(userState,
                                     <<[type |-> "LOGIN_FAILURE",
                                        payload |-> [message |-> "Invalid credentials"]]>>)
            /\ authTasks' = Remove(authTasks, k)
    /\ renderPending' = Scheduled
    /\ UNCHANGED <<rendered, providerMounted, route, storedOrders, pendingOrder,
                   flash, feedback, authCalls, processing, created, fromPending,
                   outsideUser>>

\* getStats and getRecentActivity of login call k have answered
LoginLoaded(k) ==
    /\ processing = 0
    /\ k \in 1..Len(authTasks)
    /\ authTasks[k].kind = "login" /\ authTasks[k].pc = "fetch"
    /\ userState' = Dispatch(userState,
                             <<[type |-> "SET_STATS", payload |-> mockStats],
                               [type |-> "SET_ACTIVITY", payload |-> mockActivity],
                               [type |-> "SET_ORDERS",
                                payload |-> loadOrdersFromStorage(DemoUser)]>>)
    /\ authTasks' = Remove(authTasks, k)
    /\ renderPending' = Scheduled
    /\ UNCHANGED <<rendered, providerMounted, route, storedUser, storedOrders,
                   pendingOrder, flash, feedback, authCalls, processing, created,
                   fromPending, outsideUser>>

\* register(userData) up to its first await
Register ==
    /\ providerMounted /\ processing = 0
    /\ route = "register" /\ renderPending # "mount"
    /\ authCalls < MaxAuthCalls
    /\ authCalls' = authCalls + 1
    /\ userState' = Dispatch(userState, <<[type |-> "SET_LOADING", payload |-> TRUE],
                                          [type |-> "CLEAR_ERROR"]>>)
    /\ authTasks' = Append(authTasks,
                           [kind |-> "register", valid |-> TRUE, pc |-> "api"])
    /\ renderPending' = "update"
    /\ UNCHANGED <<rendered, providerMounted, route, storedUser, storedOrders,
                   pendingOrder, flash, feedback, processing, created, fromPending,
                   outsideUser>>

\* mockApi.register of call k has answered
RegisterResponded(k) ==
    /\ processing = 0
    /\ k \in 1..Len(authTasks)
    /\ authTasks[k].kind = "register" /\ authTasks[k].pc = "api"
    /\ storedUser' = RegisteredUser
    /\ userState' = Dispatch(userState, <<[type |-> "REGISTER_SUCCESS",
                                           payload |-> RegisteredUser]>>)
    /\ authTasks' = Remove(authTasks, k)
    /\ renderPending' = Scheduled
    /\ UNCHANGED <<rendered, providerMounted, route, storedOrders, pendingOrder,
                   flash, feedback, authCalls, processing, created, fromPending,
                   outsideUser>>

\* logout(), from the dashboard of a signed-in user
Logout ==
    /\ providerMounted /\ processing = 0
    /\ route = "dashboard" /\ renderPending # "mount"
    /\ rendered.isAuthenticated
    /\ storedUser' = None
    /\ userState' = Dispatch(userState, <<[type |-> "LOGOUT"]>>)
    /\ renderPending' = "update"
    /\ UNCHANGED <<rendered, providerMounted, route, storedOrders, pendingOrder,
                   flash, feedback, authTasks, authCalls, processing, created,
                   fromPending, outsideUser>>

\* the user opens a page
Navigate(page) ==
    /\ providerMounted /\ processing = 0
    /\ page # route
    /\ route' = page
    /\ feedback' = None
    /\ renderPending' = "mount"
    /\ UNCHANGED <<userState, rendered, providerMounted, storedUser, storedOrders,
                   pendingOrder, flash, authTasks, authCalls, processing, created,
                   fromPending, outsideUser>>

\* a click on Submit Order or Save for Later: handleOrderAction(action), with
\* the isAuthenticated, submitOrder and saveOrderForLater of the last render
OrderAction(action) ==
    /\ providerMounted /\ processing = 0
    /\ route = "quote" /\ renderPending # "mount"
    /\ created < MaxOrders
    /\ IF rendered.isAuthenticated
       THEN \E r \in {handleOrderCreation(rendered, action, created + 1, storedOrders)} :
               /\ userState' = Dispatch(userState, r.dispatched)
               /\ storedOrders' = r.persisted
               /\ IF r.result # None
                  THEN /\ created' = created + 1
                       /\ flash' = [action |-> action]
                       /\ route' = "dashboard"
                       /\ renderPending' = "mount"
                       /\ feedback' = None
                  ELSE /\ feedback' = [type |-> "error"]
                       /\ renderPending' = "update"
                       /\ UNCHANGED <<created, flash, route>>
               /\ UNCHANGED <<pendingOrder, fromPending>>
       ELSE /\ pendingOrder' = [action |-> action]
            /\ fromPending' = {}
            /\ route' = "login"
            /\ renderPending' = "mount"
            /\ feedback' = None
            /\ UNCHANGED <<userState, storedOrders, created, flash>>
    /\ UNCHANGED <<rendered, providerMounted, storedUser, authTasks, authCalls,
                   processing, outsideUser>>

\* the two guards of the dashboard effects
DashboardReady(s) == ~s.isLoading /\ s.isAuthenticated

\* React renders the provider and the page with the current state and runs
\* the effects of the page: on the dashboard the redirect effect, the
\* pending-order effect up to the await of processPendingOrder (a malformed
\* entry throws in JSON.parse and reaches the finally at once) and the flash
\* effect; on the register page the redirect to the dashboard.  The effects of
\* a page that mounts run once, or twice where React's StrictMode remounts it.
Commit ==
    /\ renderPending # "none" /\ processing = 0
    /\ rendered' = Closure(userState)
    /\ \E s \in {Closure(userState)} :
          IF route = "dashboard" /\ DashboardReady(s) /\ pendingOrder # None
                /\ pendingOrder # Malformed
          THEN \E runs \in (IF renderPending = "mount" THEN {1, 2} ELSE {1}) :
               /\ created + runs <= MaxOrders
               /\ \E first \in {handleOrderCreation(s, pendingOrder.action, created + 1,
                                                    storedOrders)} :
                  \E last \in {IF runs = 1 THEN first
                               ELSE handleOrderCreation(s, pendingOrder.action,
                                                        created + 2, first.persisted)} :
                     /\ userState' = Dispatch(userState,
                                              IF runs = 1 THEN first.dispatched
                                              ELSE first.dispatched \o last.dispatched)
                     /\ storedOrders' = last.persisted
               /\ created' = created + runs
               /\ fromPending' = fromPending \cup ((created + 1)..(created + runs))
               /\ processing' = runs
               /\ flash' = None
               /\ renderPending' = "update"
               /\ UNCHANGED <<route, pendingOrder>>
          ELSE /\ route' = IF route = "dashboard" /\ ~s.isLoading /\ ~s.isAuthenticated
                           THEN "login"
                           ELSE IF route = "register" /\ s.isAuthenticated
                           THEN "dashboard"
                           ELSE route
               /\ pendingOrder' = IF route = "dashboard" /\ DashboardReady(s)
                                  THEN None ELSE pendingOrder
               /\ flash' = IF route = "dashboard" /\ DashboardReady(s)
                           THEN None ELSE flash
               /\ renderPending' = IF route' # route THEN "mount" ELSE "none"
               /\ UNCHANGED <<userState, storedOrders, created, fromPending,
                              processing>>
    /\ UNCHANGED <<providerMounted, storedUser, feedback, authTasks, authCalls,
                   outsideUser>>

\* the await of a processPendingOrder returns: its finally removes the entry
PendingProcessed ==
    /\ processing > 0
    /\ processing' = processing - 1
    /\ pendingOrder' = None
    /\ UNCHANGED <<userState, rendered, renderPending, providerMounted, route,
                   storedUser, storedOrders, flash, feedback, authTasks, authCalls,
                   created, fromPending, outsideUser>>

NextUser ==
    \/ MountProvider
    \/ \E valid \in BOOLEAN : Login(valid)
    \/ \E k \in 1..MaxAuthCalls : LoginResponded(k)
    \/ \E k \in 1..MaxAuthCalls : LoginLoaded(k)
    \/ Register
    \/ \E k \in 1..MaxAuthCalls : RegisterResponded(k)
    \/ Logout
    \/ \E page \in Pages : Navigate(page)
    \/ \E action \in OrderActions : OrderAction(action)
    \/ Commit
    \/ PendingProcessed

SpecUser == InitUser /\ [][NextUser]_vars

\* React runs a scheduled render, and an await on a settled promise returns
SpecUserFair == SpecUser /\ WF_vars(Commit) /\ WF_vars(PendingProcessed)

(***************************************************************************)
(* Claims about the user store                                             *)
(***************************************************************************)
Range(seq) == {seq[i] : i \in 1..Len(seq)}

TotalOrdersOf(stats) == IF stats = None THEN 0 ELSE stats.totalOrders

\* the records a step creates
NewOrders == {o \in Range(userState'.orders) \cup UNION {Range(storedOrders'[u]) : u \in UserIds} : o.id > created}

\* C27: every call of submitOrder or saveOrderForLater that returns a record
\* adds exactly that record and removes none: after k calls the in-memory
\* orders and the orders persisted under the user's key hold the k new records
\* and every record they held before, and the submits among them raise
\* stats.totalOrders by one each.
C27_RecordsAdded ==
    /\ \A id \in (created + 1)..created' :
          /\ \E o \in Range(userState'.orders) : o.id = id
          /\ \E o \in Range(storedOrders'[userState.user]) : o.id = id
    /\ Range(userState.orders) \subseteq Range(userState'.orders)
    /\ \A u \in UserIds : Range(storedOrders[u]) \subseteq Range(storedOrders'[u])
    /\ Len(userState'.orders) = Len(userState.orders) + (created' - created)
    /\ TotalOrdersOf(userState'.stats) =
          TotalOrdersOf(userState.stats)
             + Cardinality({o \in NewOrders : o.action = "submit"})

C27_EveryCallAddsOneRecord ==
    [][created' # created => C27_RecordsAdded]_vars

\* C28: in every reachable state isAuthenticated is true exactly when user is
\* non-null, and while user is null the orders list is empty.
C28_AuthenticatedIffUser == userState.isAuthenticated <=> userState.user # None

C28_NoOrdersWithoutUser == userState.user = None => userState.orders = <<>>

C28_UserStoreConsistent == C28_AuthenticatedIffUser /\ C28_NoOrdersWithoutUser

\* the records of a list that were created from the current pending entry
FromPendingIn(orders) == {o \in Range(orders) : o.id \in fromPending}

\* C29: a pending order in session storage is turned into at most one order
\* record of the orders list and of every persisted list, also when the
\* dashboard effect has run more than once for it, and once
\* processPendingOrder has started the entry is eventually removed.
C29_AtMostOneOrder ==
    /\ Cardinality(FromPendingIn(userState.orders)) <= 1
    /\ \A u \in UserIds : Cardinality(FromPendingIn(storedOrders[u])) <= 1

C29_EventuallyRemoved == (processing > 0) ~> (pendingOrder = None)

C29_PendingOrderOnce == []C29_AtMostOneOrder /\ C29_EventuallyRemoved

\* a pending order was processed twice, and its entry is gone
C29_Witness ==
    /\ Cardinality(fromPending) = 2
    /\ processing = 0 /\ pendingOrder = None
    /\ Cardinality(FromPendingIn(userState.orders)) = 1

====
